---- MODULE Spec2Model ----
(***************************************************************************)
(* State-machine model of server/ai-profiler.ts: the two Redis connection  *)
(* managers (getRedis, getTrackingRedis), the per-user rate limiter        *)
(* (checkRateLimit and its sweep), the profile cache (getCachedProfile,    *)
(* cacheProfile), the provider chain of generateAIProfile (Grok, then MiMo,*)
(* then generateFallbackProfile) and trackUniqueVisitor.                   *)
(*                                                                         *)
(* The program runs on one event loop: every action below is the code      *)
(* between two awaits of one call (a "task"), or one step of the           *)
(* environment (the Redis server and client library, the providers, the    *)
(* clock).                                                                 *)
(***************************************************************************)
EXTENDS Integers, Sequences, FiniteSets, TLC

(* ------------------------------------------------------------------ *)
(* Program constants                                                    *)
(* ------------------------------------------------------------------ *)
REDIS_BACKOFF_MS == 5000
RATE_LIMIT_WINDOW == 60 * 1000
RATE_LIMIT_MAX == 2
CACHE_TTL == 60 * 60 * 24 * 30
RETRY_DELAY_MS == 100
maxRetries == 3
getTotalUniqueVisitors_maxRetries == 2

(* ------------------------------------------------------------------ *)
(* Bounds of the model                                                  *)
(* ------------------------------------------------------------------ *)
\* Date.now() of the first state (any positive epoch time).
StartTime == 1000
\* How many times the clock advances in one behaviour.
MaxTicks == 2

\* Concurrent calls in flight (slots of the event loop).
Tasks == {"t1", "t2"}

\* Identity strings a request may carry.
FingerprintIds == {"fpA", "fpB"}
CrossBrowserIds == {"cb"}

\* Client objects createRedisClient may have alive at once, per connection.
Handles == 1 .. (Cardinality(Tasks) + 1)
Null == 0

\* Values of process.env.REDIS_URL: not set, or the URL of a store.
StoreUrl == "redis://store:6379"
EnvUrls == {"", StoreUrl}

(* ------------------------------------------------------------------ *)
(* JavaScript values of the provider documents and of UserProfile       *)
(* ------------------------------------------------------------------ *)
\* typeof, numeric value (1/0 for true/false) and text of a value.
JNum(n) == [t |-> "number", v |-> n, s |-> ""]
JNaN == [t |-> "NaN", v |-> 0, s |-> ""]
JNull == [t |-> "null", v |-> 0, s |-> ""]
JUndef == [t |-> "undefined", v |-> 0, s |-> ""]
JBool(b) == [t |-> "boolean", v |-> IF b THEN 1 ELSE 0, s |-> ""]
JStr(x) == [t |-> "string", v |-> 0, s |-> x]

NoProfile == [isNull |-> TRUE]

VARIABLES
    now,                      \* Date.now()
    ticks,                    \* clock advances so far (bounded by MaxTicks)
    storeUp,                  \* the Redis server accepts connections and commands
    redis,                    \* module variable redis (a handle or Null)
    redisConnecting,
    redisLastError,
    cacheClients,             \* state of each client object made for the cache connection
    trackingRedis,
    trackingRedisConnecting,
    trackingRedisLastError,
    trackingClients,          \* state of each client object made for the tracking connection
    userRateLimits,           \* Map userId -> {count, resetTime}
    cacheStore,               \* keys of the Redis server written by setEx
    visitorSet,               \* the Redis set yourinfo:unique_visitors
    GROK_API_KEY,             \* TRUE iff process.env.GROK_API_KEY is set
    OPENROUTER_API_KEY,       \* TRUE iff process.env.OPENROUTER_API_KEY is set
    env_REDIS_URL,            \* process.env.REDIS_URL ("" when it is not set)
    pc,                       \* per task: where the call is suspended
    clientInfo,               \* per task: the request (fingerprintId, crossBrowserId)
    client,                   \* per task: local `client` / the handle of the pending promise
    profile,                  \* per task: the provider profile being written through
    attempt,                  \* per task: loop counter of trackUniqueVisitor
    wake,                     \* per task: time the pending setTimeout fires
    ret,                      \* per task: the value the call returned
    trail,                    \* per task (history): the steps the call has taken
    prev,                     \* per cache key (history): payload of the last completed call
    ghostWindow,              \* per user (history): provider-reaching requests per window
    calls,                    \* per user (history): calls made per window
    nth,                      \* per task (history): ordinal of the call in its window
    firsts,                   \* per visitor (history): calls that returned true
    answer,                   \* per task (history): the last provider answer received
    unswept,                  \* per user (history): the windows had no sweep ever run
    socketRetries,            \* per cache client: the retry loop of its connect()
    recording                 \* the history variables this specification keeps

connVars == <<redis, redisConnecting, redisLastError, cacheClients>>
trackConnVars == <<trackingRedis, trackingRedisConnecting, trackingRedisLastError,
                   trackingClients>>
envVars == <<now, ticks, storeUp, GROK_API_KEY, OPENROUTER_API_KEY, env_REDIS_URL>>
storeVars == <<cacheStore, visitorSet>>
taskVars == <<pc, clientInfo, client, profile, attempt, wake, ret, trail>>
callVars == <<prev, ghostWindow, calls, nth, firsts, answer, unswept, recording>>
histVars == <<prev, ghostWindow, calls, nth, firsts, answer, unswept, socketRetries,
              recording>>
vars == <<now, ticks, storeUp, redis, redisConnecting, redisLastError, cacheClients,
          trackingRedis, trackingRedisConnecting, trackingRedisLastError,
          trackingClients, userRateLimits, cacheStore, visitorSet, GROK_API_KEY,
          OPENROUTER_API_KEY, env_REDIS_URL, pc, clientInfo, client, profile, attempt, wake, ret,
          trail, prev, ghostWindow, calls, nth, firsts, answer, unswept, socketRetries,
          recording>>

\* History: the call of task t has taken the steps `tags`.
note(t, tags) ==
    IF "trail" \in recording THEN [trail EXCEPT ![t] = @ \o tags] ELSE trail

\* History: the call of task t has received the outcome o of its call of
\* the provider `from`.
NoAnswer == [from |-> "none"]
noteAnswer(t, from, o) ==
    IF "answer" \in recording
    THEN [answer EXCEPT ![t] = [from |-> from, outcome |-> o]]
    ELSE answer

(* ------------------------------------------------------------------ *)
(* The redis client library (node-redis), as the code uses it           *)
(* ------------------------------------------------------------------ *)
\* A client object is "closed" (never connected, disconnected, or given up
\* by its reconnectStrategy), "connecting" (connect() called, its promise
\* pending), "ready", or "reconnecting" (socket lost, the library retries).
ClientStates == {"closed", "connecting", "ready", "reconnecting"}

\* client.isOpen: true from the call of connect() until disconnect() or
\* until the reconnectStrategy gives up.
isOpen(s) == s \in {"connecting", "ready", "reconnecting"}

ProfilePcs == {"getRedis_ret", "getRedis_create", "getRedis_connect", "get_wait",
               "grok_wait", "grok_hung", "mimo_wait", "mimo_hung", "setEx_wait",
               "done", "auction_get_wait", "auction_grok_wait", "auction_mimo_wait",
               "auction_setEx_wait", "auction_done"}
TrackPcs == {"getTrackingRedis_ret", "getTrackingRedis_create",
             "getTrackingRedis_connect", "sAdd_wait", "disconnect_wait", "sleep",
             "track_done", "sCard_wait", "count_sleep", "count_done"}

\* Client objects a call still refers to (a local `client`, a pending
\* promise). The module variable is not counted: the only step that takes a
\* new object overwrites it.
cacheRefs == {client[t] : t \in {u \in Tasks : pc[u] \in ProfilePcs}}
trackingRefs == {client[t] : t \in {u \in Tasks : pc[u] \in TrackPcs}}

\* Line 31: process.env.REDIS_URL || 'redis://localhost:6379'.
REDIS_URL == IF env_REDIS_URL = "" THEN "redis://localhost:6379" ELSE env_REDIS_URL

FreeHandles(clients, refs) == {h \in Handles : clients[h] = "closed" /\ h \notin refs}
\* createRedisClient(): a new client object, not yet open.
createRedisClient(clients, refs) ==
    CHOOSE h \in FreeHandles(clients, refs) :
        \A g \in FreeHandles(clients, refs) : h <= g

\* The number the library passes to the reconnectStrategy after the first
\* failed attempt of a connect(): the retries made so far (0), as node-redis
\* documents the parameter; a library that numbers the retry to come (1) is
\* admitted as well.
FirstRetries == {0, 1}

\* The retry loop of a connect(): the number the next call of the
\* reconnectStrategy gets, the number the first one got, and the delays it
\* has returned so far.
NoRetries == [retries |-> 0, first |-> 0, delays |-> <<>>]

\* Line 82: connect() is called on client h, its retry loop starts.
connectStarts(h) ==
    IF "retries" \in recording
    THEN \E f \in FirstRetries :
            socketRetries' = [socketRetries EXCEPT
                                ![h] = [retries |-> f, first |-> f, delays |-> <<>>]]
    ELSE UNCHANGED socketRetries

(* ------------------------------------------------------------------ *)
(* Connection manager: getRedis                                         *)
(* ------------------------------------------------------------------ *)
\* A faulty variant of redisInBackoff: no cooldown test at all.
redisInBackoff_never == FALSE

\* Line 66: the cooldown test of getRedis.
redisInBackoff ==
    redisLastError > 0 /\ now - redisLastError < REDIS_BACKOFF_MS

\* Lines 64-74: getRedis up to its first await. Part of the action of the
\* caller (getCachedProfile or cacheProfile call it synchronously).
getRedis_sync(t) ==
    IF redisInBackoff
    THEN /\ pc' = [pc EXCEPT ![t] = "getRedis_ret"]
         /\ client' = [client EXCEPT ![t] = Null]
         /\ UNCHANGED redisConnecting
    ELSE IF redis # Null /\ isOpen(cacheClients[redis])
    THEN /\ pc' = [pc EXCEPT ![t] = "getRedis_ret"]
         /\ client' = [client EXCEPT ![t] = redis]
         /\ UNCHANGED redisConnecting
    ELSE IF redisConnecting
    THEN /\ pc' = [pc EXCEPT ![t] = "getRedis_ret"]
         /\ client' = [client EXCEPT ![t] = Null]
         /\ UNCHANGED redisConnecting
    ELSE /\ redisConnecting' = TRUE
         /\ pc' = [pc EXCEPT ![t] = "getRedis_create"]
         /\ client' = [client EXCEPT ![t] = Null]

\* Lines 75-82: redis = await createRedisClient(); redis.on('error', ...);
\* redis.connect() is called and awaited. The client is made for REDIS_URL,
\* which is never empty (line 31).
getRedis_create(t) ==
    /\ pc[t] = "getRedis_create"
    /\ REDIS_URL # ""
    /\ FreeHandles(cacheClients, cacheRefs) # {}
    /\ LET h == createRedisClient(cacheClients, cacheRefs) IN
        /\ redis' = h
        /\ cacheClients' = [cacheClients EXCEPT ![h] = "connecting"]
        /\ client' = [client EXCEPT ![t] = h]
    /\ pc' = [pc EXCEPT ![t] = "getRedis_connect"]
    /\ connectStarts(createRedisClient(cacheClients, cacheRefs))
    /\ UNCHANGED <<redisConnecting, redisLastError, trackConnVars, envVars, storeVars,
                   userRateLimits, clientInfo, profile, attempt, wake, ret, trail,
                   callVars>>

\* Lines 83-86: connect() resolved.
getRedis_connected(t) ==
    /\ pc[t] = "getRedis_connect"
    /\ cacheClients[client[t]] = "connecting"
    /\ storeUp
    /\ cacheClients' = [cacheClients EXCEPT ![client[t]] = "ready"]
    /\ redisConnecting' = FALSE
    /\ redisLastError' = 0
    /\ client' = [client EXCEPT ![t] = redis]
    /\ pc' = [pc EXCEPT ![t] = "getRedis_ret"]
    /\ UNCHANGED <<redis, trackConnVars, envVars, storeVars, userRateLimits,
                   clientInfo, profile, attempt, wake, ret, trail, histVars>>

\* A faulty variant of getRedis_failed: one error timestamp shared by the
\* two connections.
getRedis_failed_shared(t) ==
    /\ pc[t] = "getRedis_connect"
    /\ cacheClients[client[t]] = "connecting"
    /\ ~storeUp
    /\ cacheClients' = [cacheClients EXCEPT ![client[t]] = "closed"]
    /\ redisConnecting' = FALSE
    /\ redisLastError' = now
    /\ trackingRedisLastError' = now
    /\ redis' = Null
    /\ client' = [client EXCEPT ![t] = Null]
    /\ pc' = [pc EXCEPT ![t] = "getRedis_ret"]
    /\ UNCHANGED <<trackingRedis, trackingRedisConnecting, trackingClients, envVars,
                   storeVars, userRateLimits, clientInfo, profile, attempt, wake, ret,
                   trail, histVars>>

\* Lines 87-93: connect() rejected (the reconnectStrategy gave up: the
\* client is closed and its last 'error' event has run the handler).
getRedis_failed(t) ==
    /\ pc[t] = "getRedis_connect"
    /\ cacheClients[client[t]] = "connecting"
    /\ ~storeUp
    /\ cacheClients' = [cacheClients EXCEPT ![client[t]] = "closed"]
    /\ redisConnecting' = FALSE
    /\ redisLastError' = now
    /\ redis' = Null
    /\ client' = [client EXCEPT ![t] = Null]
    /\ pc' = [pc EXCEPT ![t] = "getRedis_ret"]
    /\ UNCHANGED <<trackConnVars, envVars, storeVars, userRateLimits, clientInfo,
                   profile, attempt, wake, ret, trail, histVars>>

\* A faulty variant of redisOnError: a handler that only logs.
redisOnError_logsOnly(h) ==
    /\ isOpen(cacheClients[h])
    /\ ~storeUp
    /\ cacheClients' = [cacheClients EXCEPT
                          ![h] = IF @ = "ready" THEN "reconnecting" ELSE @]
    /\ UNCHANGED <<redis, redisConnecting, redisLastError, trackConnVars, envVars,
                   storeVars, userRateLimits, taskVars, histVars>>

\* Lines 77-80: the 'error' handler of a cache client. The library emits
\* 'error' when a connection attempt of an open client fails or its socket
\* breaks; a ready client then reconnects by itself.
redisOnError(h) ==
    /\ isOpen(cacheClients[h])
    /\ ~storeUp
    /\ redisLastError' = now
    /\ cacheClients' = [cacheClients EXCEPT
                          ![h] = IF @ = "ready" THEN "reconnecting" ELSE @]
    /\ UNCHANGED <<redis, redisConnecting, trackConnVars, envVars, storeVars,
                   userRateLimits, taskVars, histVars>>

\* The library re-established the socket of a cache client.
redisReconnected(h) ==
    /\ cacheClients[h] = "reconnecting"
    /\ storeUp
    /\ cacheClients' = [cacheClients EXCEPT ![h] = "ready"]
    /\ UNCHANGED <<redis, redisConnecting, redisLastError, trackConnVars, envVars,
                   storeVars, userRateLimits, taskVars, histVars>>

\* Lines 53-58 and 77-80: the reconnectStrategy returned an Error for a
\* client that was reconnecting: the client closes, 'error' is emitted.
redisGaveUp(h) ==
    /\ cacheClients[h] = "reconnecting"
    /\ ~storeUp
    /\ cacheClients' = [cacheClients EXCEPT ![h] = "closed"]
    /\ redisLastError' = now
    /\ UNCHANGED <<redis, redisConnecting, trackConnVars, envVars, storeVars,
                   userRateLimits, taskVars, histVars>>

(* ------------------------------------------------------------------ *)
(* Connection manager: getTrackingRedis                                 *)
(* ------------------------------------------------------------------ *)
\* A faulty variant of trackingRedisInBackoff: a cooldown that never ends.
trackingRedisInBackoff_forever == trackingRedisLastError > 0

\* Line 98: the cooldown test of getTrackingRedis.
trackingRedisInBackoff ==
    trackingRedisLastError > 0 /\ now - trackingRedisLastError < REDIS_BACKOFF_MS

\* Lines 97-106: getTrackingRedis up to its first await.
getTrackingRedis_sync(t) ==
    IF trackingRedisInBackoff
    THEN /\ pc' = [pc EXCEPT ![t] = "getTrackingRedis_ret"]
         /\ client' = [client EXCEPT ![t] = Null]
         /\ UNCHANGED trackingRedisConnecting
    ELSE IF trackingRedis # Null /\ isOpen(trackingClients[trackingRedis])
    THEN /\ pc' = [pc EXCEPT ![t] = "getTrackingRedis_ret"]
         /\ client' = [client EXCEPT ![t] = trackingRedis]
         /\ UNCHANGED trackingRedisConnecting
    ELSE IF trackingRedisConnecting
    THEN /\ pc' = [pc EXCEPT ![t] = "getTrackingRedis_ret"]
         /\ client' = [client EXCEPT ![t] = Null]
         /\ UNCHANGED trackingRedisConnecting
    ELSE /\ trackingRedisConnecting' = TRUE
         /\ pc' = [pc EXCEPT ![t] = "getTrackingRedis_create"]
         /\ client' = [client EXCEPT ![t] = Null]

\* Lines 107-114.
getTrackingRedis_create(t) ==
    /\ pc[t] = "getTrackingRedis_create"
    /\ REDIS_URL # ""
    /\ FreeHandles(trackingClients, trackingRefs) # {}
    /\ LET h == createRedisClient(trackingClients, trackingRefs) IN
        /\ trackingRedis' = h
        /\ trackingClients' = [trackingClients EXCEPT ![h] = "connecting"]
        /\ client' = [client EXCEPT ![t] = h]
    /\ pc' = [pc EXCEPT ![t] = "getTrackingRedis_connect"]
    /\ UNCHANGED <<trackingRedisConnecting, trackingRedisLastError, connVars, envVars,
                   storeVars, userRateLimits, clientInfo, profile, attempt, wake, ret,
                   trail, histVars>>

\* Lines 115-118: connect() resolved. It resolves when the server accepted
\* the connection; after a disconnect() of the client by trackUniqueVisitor
\* (line 994) the pending promise may settle either way.
getTrackingRedis_connected(t) ==
    /\ pc[t] = "getTrackingRedis_connect"
    /\ \/ trackingClients[client[t]] = "connecting" /\ storeUp
       \/ trackingClients[client[t]] = "closed"
    /\ trackingClients' = [trackingClients EXCEPT
                             ![client[t]] = IF @ = "connecting" THEN "ready" ELSE @]
    /\ trackingRedisConnecting' = FALSE
    /\ trackingRedisLastError' = 0
    /\ client' = [client EXCEPT ![t] = trackingRedis]
    /\ pc' = [pc EXCEPT ![t] = "getTrackingRedis_ret"]
    /\ UNCHANGED <<trackingRedis, connVars, envVars, storeVars, userRateLimits,
                   clientInfo, profile, attempt, wake, ret, trail, histVars>>

\* Lines 119-125: connect() rejected.
getTrackingRedis_failed(t) ==
    /\ pc[t] = "getTrackingRedis_connect"
    /\ \/ trackingClients[client[t]] = "connecting" /\ ~storeUp
       \/ trackingClients[client[t]] = "closed"
    /\ trackingClients' = [trackingClients EXCEPT ![client[t]] = "closed"]
    /\ trackingRedisConnecting' = FALSE
    /\ trackingRedisLastError' = now
    /\ trackingRedis' = Null
    /\ client' = [client EXCEPT ![t] = Null]
    /\ pc' = [pc EXCEPT ![t] = "getTrackingRedis_ret"]
    /\ trail' = note(t, <<"connect:rejected">>)
    /\ UNCHANGED <<connVars, envVars, storeVars, userRateLimits, clientInfo, profile,
                   attempt, wake, ret, histVars>>

\* Lines 109-112: the 'error' handler of a tracking client.
trackingRedisOnError(h) ==
    /\ isOpen(trackingClients[h])
    /\ ~storeUp
    /\ trackingRedisLastError' = now
    /\ trackingClients' = [trackingClients EXCEPT
                             ![h] = IF @ = "ready" THEN "reconnecting" ELSE @]
    /\ UNCHANGED <<trackingRedis, trackingRedisConnecting, connVars, envVars,
                   storeVars, userRateLimits, taskVars, histVars>>

trackingRedisReconnected(h) ==
    /\ trackingClients[h] = "reconnecting"
    /\ storeUp
    /\ trackingClients' = [trackingClients EXCEPT ![h] = "ready"]
    /\ UNCHANGED <<trackingRedis, trackingRedisConnecting, trackingRedisLastError,
                   connVars, envVars, storeVars, userRateLimits, taskVars, histVars>>

trackingRedisGaveUp(h) ==
    /\ trackingClients[h] = "reconnecting"
    /\ ~storeUp
    /\ trackingClients' = [trackingClients EXCEPT ![h] = "closed"]
    /\ trackingRedisLastError' = now
    /\ UNCHANGED <<trackingRedis, trackingRedisConnecting, connVars, envVars,
                   storeVars, userRateLimits, taskVars, histVars>>

(* ------------------------------------------------------------------ *)
(* Rate limiter                                                         *)
(* ------------------------------------------------------------------ *)
\* Faulty variants of checkRateLimit: one that lets count pass the maximum
\* by one, one that allows a call without counting it, one that already
\* replaces the window at its reset time.
checkRateLimit_offByOne(limits, userId, t) ==
    IF userId \notin DOMAIN limits \/ t > limits[userId].resetTime
    THEN [allowed |-> TRUE,
          limits |-> (userId :> [count |-> 1, resetTime |-> t + RATE_LIMIT_WINDOW])
                        @@ limits]
    ELSE IF limits[userId].count > RATE_LIMIT_MAX
    THEN [allowed |-> FALSE, limits |-> limits]
    ELSE [allowed |-> TRUE,
          limits |-> [limits EXCEPT ![userId].count = @ + 1]]
checkRateLimit_uncounted(limits, userId, t) ==
    IF userId \notin DOMAIN limits \/ t > limits[userId].resetTime
    THEN [allowed |-> TRUE,
          limits |-> (userId :> [count |-> 1, resetTime |-> t + RATE_LIMIT_WINDOW])
                        @@ limits]
    ELSE [allowed |-> TRUE, limits |-> limits]
checkRateLimit_resetsEarly(limits, userId, t) ==
    IF userId \notin DOMAIN limits \/ t >= limits[userId].resetTime
    THEN [allowed |-> TRUE,
          limits |-> (userId :> [count |-> 1, resetTime |-> t + RATE_LIMIT_WINDOW])
                        @@ limits]
    ELSE IF limits[userId].count >= RATE_LIMIT_MAX
    THEN [allowed |-> FALSE, limits |-> limits]
    ELSE [allowed |-> TRUE,
          limits |-> [limits EXCEPT ![userId].count = @ + 1]]

\* Lines 146-162: the result and the map after checkRateLimit(userId) at time t.
checkRateLimit(limits, userId, t) ==
    IF userId \notin DOMAIN limits \/ t > limits[userId].resetTime
    THEN [allowed |-> TRUE,
          limits |-> (userId :> [count |-> 1, resetTime |-> t + RATE_LIMIT_WINDOW])
                        @@ limits]
    ELSE IF limits[userId].count >= RATE_LIMIT_MAX
    THEN [allowed |-> FALSE, limits |-> limits]
    ELSE [allowed |-> TRUE,
          limits |-> [limits EXCEPT ![userId].count = @ + 1]]

\* A faulty variant of sweepKeeps: the sweep also deletes the window whose
\* reset time is now.
sweepKeeps_strictlyLive(limits, t) == {u \in DOMAIN limits : t < limits[u].resetTime}

\* Lines 139-143: the entries the sweep keeps.
sweepKeeps(limits, t) == {u \in DOMAIN limits : ~(t > limits[u].resetTime)}

\* History: the windows as checkRateLimit alone would have left them, the
\* sweep never having run.
unsweptNote(userId) ==
    IF "unswept" \in recording
    THEN checkRateLimit(unswept, userId, now).limits
    ELSE unswept

(* ------------------------------------------------------------------ *)
(* Cache keys, JSON, provider responses, profiles                       *)
(* ------------------------------------------------------------------ *)
\* A faulty variant of getCacheKey: profile keys share the prefix of the
\* auction keys.
getCacheKey_auctionPrefix(fingerprintId, crossBrowserId) ==
    "yourinfo:auction:" \o fingerprintId \o ":" \o crossBrowserId

\* Lines 167-169.
getCacheKey(fingerprintId, crossBrowserId) ==
    "yourinfo:profile:" \o fingerprintId \o ":" \o crossBrowserId

\* Line 784.
userIdOf(fingerprintId, crossBrowserId) == fingerprintId \o ":" \o crossBrowserId

\* JavaScript ToNumber, as Math.max / Math.min apply it.
ToNumber(x) ==
    CASE x.t = "number" -> x
      [] x.t = "boolean" -> JNum(x.v)
      [] x.t = "null" -> JNum(0)
      [] OTHER -> JNaN

\* A faulty variant of Math.min: the bound is not applied.
Min2_unclamped(a, b) == b

Min2(a, b) == IF a <= b THEN a ELSE b
Max2(a, b) == IF a >= b THEN a ELSE b

\* Math.min(100, Math.max(0, x)): NaN stays NaN.
clampScore(x) ==
    LET n == ToNumber(x) IN
    IF n.t = "NaN" THEN JNaN ELSE JNum(Min2(100, Max2(0, n.v)))

\* x ?? d
Coalesce(x, d) == IF x.t \in {"null", "undefined"} THEN d ELSE x

\* A provider's message content: text JSON.parse rejects, or a JSON document
\* (the fields parseAIResponse reads; JUndef for a field that is absent).
Doc(ld, ds, gs, hs) ==
    [likelyDeveloper |-> ld, developerScore |-> ds, gamerScore |-> gs, humanScore |-> hs]
GarbageText == [syntax |-> "garbage", doc |-> Doc(JUndef, JUndef, JUndef, JUndef)]
JsonText(d) == [syntax |-> "json", doc |-> d]
ProviderTexts ==
    { GarbageText,
      JsonText(Doc(JStr("yes"), JNum(50), JUndef, JUndef)),
      JsonText(Doc(JBool(TRUE), JNum(150), JUndef, JNull)),
      JsonText(Doc(JBool(FALSE), JNum(-5), JStr("high"), JNum(101))) }

\* A faulty variant of parseAIResponse: one well-typed required field is
\* enough for a document to be accepted.
parseAIResponse_eitherField(text) ==
    IF text.syntax # "json" THEN NoProfile
    ELSE IF text.doc.likelyDeveloper.t # "boolean" /\ text.doc.developerScore.t # "number"
    THEN NoProfile
    ELSE [likelyDeveloper |-> text.doc.likelyDeveloper,
          developerScore |-> clampScore(text.doc.developerScore),
          gamerScore |-> clampScore(Coalesce(text.doc.gamerScore, JNum(0))),
          humanScore |-> clampScore(Coalesce(text.doc.humanScore, JNum(100)))]

\* Lines 645-756 (the fields modelled): null for unparseable text and for a
\* document without a boolean likelyDeveloper and a number developerScore.
parseAIResponse(text) ==
    IF text.syntax # "json" THEN NoProfile
    ELSE IF text.doc.likelyDeveloper.t # "boolean" \/ text.doc.developerScore.t # "number"
    THEN NoProfile
    ELSE [likelyDeveloper |-> text.doc.likelyDeveloper,
          developerScore |-> clampScore(text.doc.developerScore),
          gamerScore |-> clampScore(Coalesce(text.doc.gamerScore, JNum(0))),
          humanScore |-> clampScore(Coalesce(text.doc.humanScore, JNum(100)))]

\* A faulty variant of markAI: every profile is marked as the primary's.
markAI_asGrok(p, aiSource) ==
    [likelyDeveloper |-> p.likelyDeveloper, developerScore |-> p.developerScore,
     gamerScore |-> p.gamerScore, humanScore |-> p.humanScore,
     aiGenerated |-> JBool(TRUE), aiSource |-> JStr("grok")]

\* Lines 838-839 and 926-927: the profile marked as AI-generated.
markAI(p, aiSource) ==
    [likelyDeveloper |-> p.likelyDeveloper, developerScore |-> p.developerScore,
     gamerScore |-> p.gamerScore, humanScore |-> p.humanScore,
     aiGenerated |-> JBool(TRUE), aiSource |-> JStr(aiSource)]

\* Lines 503-640 (the fields modelled). Signals absent from the request
\* take the defaults of the code's ?? operators; geoCountry is the country
\* of the geo argument (line 629: geo?.country || 'Unknown').
Opt(r, f, d) == IF f \in DOMAIN r THEN r[f] ELSE d
generateFallbackProfile(ci) ==
    LET developerScore == Min2(100,
            (IF Opt(ci, "hasDeveloperFonts", FALSE) THEN 40 ELSE 0)
          + (IF Opt(ci, "hasDeveloperExtensions", FALSE) THEN 40 ELSE 0)
          + (IF Opt(ci, "devToolsOpen", FALSE) THEN 30 ELSE 0))
        likelyDeveloper == developerScore >= 40
        gamerScore == Min2(100,
            (IF Opt(ci, "gamepadsSupported", FALSE) THEN 30 ELSE 0)
          + (IF Opt(ci, "hasGamingGPU", FALSE) THEN 30 ELSE 0)
          + (IF Opt(ci, "hasDiscord", FALSE) THEN 20 ELSE 0)
          + (IF Opt(ci, "hasSteam", FALSE) THEN 30 ELSE 0))
        likelyGamer == gamerScore >= 40
        hasHighDPI == Opt(ci, "devicePixelRatio", 1) >= 2
        hasWideGamut == Opt(ci, "colorGamut", "") \in {"p3", "rec2020"}
        hasHDR == Opt(ci, "hdrSupported", FALSE)
        highResolution == Opt(ci, "screenWidth", 0) >= 2560
        designerScore == Min2(100,
            (IF hasHighDPI THEN 25 ELSE 0)
          + (IF hasWideGamut THEN 25 ELSE 0)
          + (IF hasHDR THEN 25 ELSE 0)
          + (IF highResolution THEN 25 ELSE 0))
        likelyDesigner == designerScore >= 50
        highCores == Opt(ci, "hardwareConcurrency", 0) >= 8
        highRAM == Opt(ci, "deviceMemory", 0) >= 16
        multipleLanguages == Opt(ci, "languagesLength", 0) >= 3
        keyboardShortcutsCount == Opt(ci, "keyboardShortcutsUsedLength", 0)
        usesKeyboardShortcuts == keyboardShortcutsCount > 3
        powerUserScore == Min2(100,
            (IF highCores THEN 25 ELSE 0)
          + (IF highRAM THEN 25 ELSE 0)
          + (IF multipleLanguages THEN 20 ELSE 0)
          + (IF usesKeyboardShortcuts THEN 30 ELSE 0))
        likelyPowerUser == powerUserScore >= 50
        hasAdBlocker == Opt(ci, "adBlockerDetected", FALSE)
        hasDNT == Opt(ci, "doNotTrack", FALSE)
        hasGPC == Opt(ci, "globalPrivacyControl", FALSE)
        isIncognito == Opt(ci, "isIncognito", FALSE)
        hasVPN == Opt(ci, "likelyUsingVPN", FALSE)
        privacyScore == Min2(100,
            (IF hasAdBlocker THEN 25 ELSE 0)
          + (IF hasDNT THEN 15 ELSE 0)
          + (IF hasGPC THEN 20 ELSE 0)
          + (IF isIncognito THEN 25 ELSE 0)
          + (IF hasVPN THEN 25 ELSE 0))
        privacyConscious == privacyScore >= 40
        isAutomated == Opt(ci, "isAutomated", FALSE)
        isHeadless == Opt(ci, "isHeadless", FALSE)
        isVM == Opt(ci, "isVirtualMachine", FALSE)
        humanScore == Max2(0, 100
          - (IF isAutomated THEN 50 ELSE 0)
          - (IF isHeadless THEN 30 ELSE 0)
          - (IF isVM THEN 20 ELSE 0))
        fraudIndicators ==
            (IF isAutomated THEN <<"Automation detected">> ELSE <<>>)
          \o (IF hasVPN /\ isIncognito THEN <<"VPN + Incognito mode">> ELSE <<>>)
          \o (IF isHeadless THEN <<"Headless browser">> ELSE <<>>)
        fraudRiskScore == Min2(100, Len(fraudIndicators) * 25)
    IN  [likelyDeveloper |-> JBool(likelyDeveloper),
         developerScore |-> JNum(developerScore),
         likelyGamer |-> JBool(likelyGamer),
         gamerScore |-> JNum(gamerScore),
         likelyDesigner |-> JBool(likelyDesigner),
         designerScore |-> JNum(designerScore),
         likelyPowerUser |-> JBool(likelyPowerUser),
         powerUserScore |-> JNum(powerUserScore),
         privacyConscious |-> JBool(privacyConscious),
         privacyScore |-> JNum(privacyScore),
         humanScore |-> JNum(humanScore),
         likelyCountry |-> JStr(IF Opt(ci, "geoCountry", "") = ""
                                THEN "Unknown" ELSE ci.geoCountry),
         fraudRiskScore |-> JNum(fraudRiskScore),
         aiGenerated |-> JBool(FALSE)]

\* A faulty variant of JSONstringify: a serialiser that keeps NaN.
JSONstringify_keepsNaN(p) == [json |-> p]

\* JSON.stringify of a profile: NaN is written as null.
JSONstringify(p) ==
    [json |-> [f \in DOMAIN p |-> IF p[f].t = "NaN" THEN JNull ELSE p[f]]]
\* JSON.parse of a string JSON.stringify wrote.
JSONparse(str) == str.json
\* A stored string that is not JSON, and whether JSON.parse returns (rather
\* than throws) for a stored string.
Unparseable == [text |-> "not JSON"]
JSONparses(str) == "json" \in DOMAIN str

(* ------------------------------------------------------------------ *)
(* generateAIProfile                                                    *)
(* ------------------------------------------------------------------ *)
NoRet == [profile |-> NoProfile, source |-> "", error |-> ""]
Requests == [fingerprintId : FingerprintIds, crossBrowserId : CrossBrowserIds]

\* The call in slot t is a generateAIAuction call (its arguments are a
\* profile summary and a country).
isAuction(t) == "profileSummary" \in DOMAIN clientInfo[t]

NoRequest == [fingerprintId |-> "", crossBrowserId |-> ""]
\* Lines 766-767: x || 'unknown'.
orUnknown(x) == IF x = "" THEN "unknown" ELSE x
cacheKeyOf(ci) == getCacheKey(orUnknown(ci.fingerprintId), orUnknown(ci.crossBrowserId))
rateKeyOf(ci) == userIdOf(orUnknown(ci.fingerprintId), orUnknown(ci.crossBrowserId))

\* What a provider call ends with: the fetch throws, a non-2xx status, no
\* message content, or a message content.
ProviderOutcomes ==
    {[kind |-> k, text |-> GarbageText] : k \in {"throw", "http", "empty"}}
        \cup {[kind |-> "text", text |-> x] : x \in ProviderTexts}

\* A faulty variant of providerProfile: a failed provider call yields the
\* deterministic profile, which then takes the way of a provider's.
providerProfile_cachesFallback(o, aiSource) ==
    IF o.kind = "text" /\ parseAIResponse(o.text) # NoProfile
    THEN markAI(parseAIResponse(o.text), aiSource)
    ELSE generateFallbackProfile(NoRequest)

\* Lines 864-923 (Grok) and 802-843 (MiMo): the profile a provider call
\* yields, NoProfile when the chain has to fall through.
providerProfile(o, aiSource) ==
    IF o.kind # "text" THEN NoProfile
    ELSE IF parseAIResponse(o.text) = NoProfile THEN NoProfile
    ELSE markAI(parseAIResponse(o.text), aiSource)

\* History: one more provider-reaching request of userId at time t, counted
\* in windows of RATE_LIMIT_WINDOW that start with the first such request
\* after the previous window has ended.
ghostNote(g, userId, t) ==
    IF userId \notin DOMAIN g \/ t > g[userId].start + RATE_LIMIT_WINDOW
    THEN (userId :> [start |-> t, count |-> 1]) @@ g
    ELSE [g EXCEPT ![userId].count = @ + 1]

\* History: one more call of userId at time t, counted likewise; counts
\* beyond RATE_LIMIT_MAX + 1 are not told apart.
callNote(g, userId, t) ==
    IF userId \notin DOMAIN g \/ t > g[userId].start + RATE_LIMIT_WINDOW
    THEN (userId :> [start |-> t, count |-> 1]) @@ g
    ELSE [g EXCEPT ![userId].count = Min2(@ + 1, RATE_LIMIT_MAX + 1)]

\* A faulty variant of fallbackRet: a profile that depends on the time of
\* the call.
fallbackRet_timeDependent(t, err) ==
    [profile |-> [generateFallbackProfile(clientInfo[t]) EXCEPT
                     !.humanScore = JNum(Max2(0, @.v - ticks))],
     source |-> "fallback", error |-> err]

\* A faulty variant of fallbackRet: the last step fails outward instead of
\* returning the deterministic profile.
fallbackRet_failsOutward(t, err) ==
    [profile |-> NoProfile, source |-> "error", error |-> err]

fallbackRet(t, err) ==
    [profile |-> generateFallbackProfile(clientInfo[t]), source |-> "fallback",
     error |-> err]

\* A faulty variant of afterMiss: the rate limiter is consulted before the
\* test of the provider keys.
afterMiss_rateFirst(t, tag) ==
    LET r == checkRateLimit(userRateLimits, rateKeyOf(clientInfo[t]), now) IN
    /\ client' = [client EXCEPT ![t] = Null]
    /\ userRateLimits' = r.limits
    /\ unswept' = unsweptNote(rateKeyOf(clientInfo[t]))
    /\ IF ~r.allowed
       THEN /\ pc' = [pc EXCEPT ![t] = "done"]
            /\ ret' = [ret EXCEPT ![t] = fallbackRet(t, "Rate limited")]
            /\ trail' = note(t, <<tag, "rate:deny", "fallback">>)
            /\ UNCHANGED ghostWindow
       ELSE IF ~GROK_API_KEY /\ ~OPENROUTER_API_KEY
       THEN /\ pc' = [pc EXCEPT ![t] = "done"]
            /\ ret' = [ret EXCEPT ![t] = fallbackRet(t, "No AI configured")]
            /\ trail' = note(t, <<tag, "rate:pass", "avail:none", "fallback">>)
            /\ UNCHANGED ghostWindow
       ELSE /\ ghostWindow' = IF "ghostWindow" \in recording
                             THEN ghostNote(ghostWindow, rateKeyOf(clientInfo[t]), now)
                             ELSE ghostWindow
            /\ UNCHANGED ret
            /\ IF ~GROK_API_KEY
               THEN /\ pc' = [pc EXCEPT ![t] = "mimo_wait"]
                    /\ trail' = note(t, <<tag, "rate:pass", "avail:pass", "mimo:call">>)
               ELSE /\ pc' = [pc EXCEPT ![t] = "grok_wait"]
                    /\ trail' = note(t, <<tag, "rate:pass", "avail:pass", "grok:call">>)

\* Lines 776-791 and the fetch of 864 or 802: what follows a cache miss,
\* up to the next await. `tag` is how the lookup ended; the history also
\* tells how the test of line 777 ended (avail:none, avail:pass).
afterMiss(t, tag) ==
    /\ client' = [client EXCEPT ![t] = Null]
    /\ IF ~GROK_API_KEY /\ ~OPENROUTER_API_KEY
       THEN /\ pc' = [pc EXCEPT ![t] = "done"]
            /\ ret' = [ret EXCEPT ![t] = fallbackRet(t, "No AI configured")]
            /\ trail' = note(t, <<tag, "avail:none", "fallback">>)
            /\ UNCHANGED <<userRateLimits, ghostWindow, unswept>>
       ELSE LET r == checkRateLimit(userRateLimits, rateKeyOf(clientInfo[t]), now) IN
            /\ userRateLimits' = r.limits
            /\ unswept' = unsweptNote(rateKeyOf(clientInfo[t]))
            /\ IF ~r.allowed
               THEN /\ pc' = [pc EXCEPT ![t] = "done"]
                    /\ ret' = [ret EXCEPT ![t] = fallbackRet(t, "Rate limited")]
                    /\ trail' = note(t, <<tag, "avail:pass", "rate:deny", "fallback">>)
                    /\ UNCHANGED ghostWindow
               ELSE /\ ghostWindow' = IF "ghostWindow" \in recording
                                     THEN ghostNote(ghostWindow, rateKeyOf(clientInfo[t]), now)
                                     ELSE ghostWindow
                    /\ UNCHANGED ret
                    /\ IF ~GROK_API_KEY
                       THEN /\ pc' = [pc EXCEPT ![t] = "mimo_wait"]
                            /\ trail' = note(t, <<tag, "avail:pass", "rate:pass", "mimo:call">>)
                       ELSE /\ pc' = [pc EXCEPT ![t] = "grok_wait"]
                            /\ trail' = note(t, <<tag, "avail:pass", "rate:pass", "grok:call">>)

\* Lines 761-771: the call, up to the await inside getRedis. History: the
\* call is counted for its caller.
generateAIProfile(t, ci) ==
    /\ pc[t] = "idle"
    /\ clientInfo' = [clientInfo EXCEPT ![t] = ci]
    /\ getRedis_sync(t)
    /\ IF "calls" \in recording
       THEN /\ calls' = callNote(calls, rateKeyOf(ci), now)
            /\ nth' = [nth EXCEPT ![t] = callNote(calls, rateKeyOf(ci), now)[rateKeyOf(ci)].count]
       ELSE UNCHANGED <<calls, nth>>
    /\ UNCHANGED <<redis, redisLastError, cacheClients, trackConnVars, envVars,
                   storeVars, userRateLimits, profile, attempt, wake, ret, trail,
                   prev, ghostWindow, unswept, socketRetries, firsts, answer, recording>>

\* Lines 176-179: getRedis has returned to getCachedProfile.
getCachedProfile_acquired(t) ==
    /\ pc[t] = "getRedis_ret"
    /\ ~isAuction(t)
    /\ profile[t] = NoProfile
    /\ IF client[t] = Null
       THEN afterMiss(t, "cache:unavailable")
       ELSE /\ pc' = [pc EXCEPT ![t] = "get_wait"]
            /\ UNCHANGED <<client, ret, trail, userRateLimits, ghostWindow, unswept>>
    /\ UNCHANGED <<connVars, trackConnVars, envVars, storeVars, clientInfo, profile,
                   attempt, wake, prev, calls, nth, firsts, answer, socketRetries,
                   recording>>

\* A faulty variant of getCachedProfile_got: a hit is counted against the
\* caller's window before it is returned.
getCachedProfile_got_counted(t) ==
    /\ pc[t] = "get_wait"
    /\ cacheClients[client[t]] = "ready"
    /\ storeUp
    /\ IF cacheKeyOf(clientInfo[t]) \notin DOMAIN cacheStore
       THEN afterMiss(t, "cache:miss")
       ELSE IF ~JSONparses(cacheStore[cacheKeyOf(clientInfo[t])].value)
       THEN afterMiss(t, "cache:corrupt")
       ELSE /\ pc' = [pc EXCEPT ![t] = "done"]
            /\ ret' = [ret EXCEPT ![t] =
                         [profile |-> JSONparse(cacheStore[cacheKeyOf(clientInfo[t])].value),
                          source |-> "cache", error |-> ""]]
            /\ trail' = note(t, <<"cache:hit">>)
            /\ client' = [client EXCEPT ![t] = Null]
            /\ userRateLimits' =
                   checkRateLimit(userRateLimits, rateKeyOf(clientInfo[t]), now).limits
            /\ unswept' = unsweptNote(rateKeyOf(clientInfo[t]))
            /\ UNCHANGED ghostWindow
    /\ UNCHANGED <<connVars, trackConnVars, envVars, storeVars, clientInfo, profile,
                   attempt, wake, prev, calls, nth, firsts, answer, socketRetries,
                   recording>>

\* Lines 179-188 and 772-774: client.get resolved. A stored string that
\* JSON.parse rejects ends in the catch, which returns null.
getCachedProfile_got(t) ==
    /\ pc[t] = "get_wait"
    /\ cacheClients[client[t]] = "ready"
    /\ storeUp
    /\ IF cacheKeyOf(clientInfo[t]) \notin DOMAIN cacheStore
       THEN afterMiss(t, "cache:miss")
       ELSE IF ~JSONparses(cacheStore[cacheKeyOf(clientInfo[t])].value)
       THEN afterMiss(t, "cache:corrupt")
       ELSE /\ pc' = [pc EXCEPT ![t] = "done"]
            /\ ret' = [ret EXCEPT ![t] =
                         [profile |-> JSONparse(cacheStore[cacheKeyOf(clientInfo[t])].value),
                          source |-> "cache", error |-> ""]]
            /\ trail' = note(t, <<"cache:hit">>)
            /\ client' = [client EXCEPT ![t] = Null]
            /\ UNCHANGED <<userRateLimits, ghostWindow, unswept>>
    /\ UNCHANGED <<connVars, trackConnVars, envVars, storeVars, clientInfo, profile,
                   attempt, wake, prev, calls, nth, firsts, answer, socketRetries,
                   recording>>

\* A faulty variant of getCachedProfile_failed: the rejection reaches the
\* caller of generateAIProfile.
getCachedProfile_failed_throws(t) ==
    /\ pc[t] = "get_wait"
    /\ cacheClients[client[t]] = "closed" \/ ~storeUp
    /\ pc' = [pc EXCEPT ![t] = "done"]
    /\ ret' = [ret EXCEPT ![t] = [profile |-> NoProfile, source |-> "error",
                                  error |-> "Redis get error"]]
    /\ client' = [client EXCEPT ![t] = Null]
    /\ trail' = note(t, <<"cache:error">>)
    /\ UNCHANGED <<connVars, trackConnVars, envVars, storeVars, userRateLimits,
                   ghostWindow, unswept, socketRetries, clientInfo, profile, attempt, wake,
                   prev, calls, nth,
                   firsts, answer, recording>>

\* Lines 185-188: client.get rejected; the catch returns null.
getCachedProfile_failed(t) ==
    /\ pc[t] = "get_wait"
    /\ cacheClients[client[t]] = "closed" \/ ~storeUp
    /\ afterMiss(t, "cache:error")
    /\ UNCHANGED <<connVars, trackConnVars, envVars, storeVars, clientInfo, profile,
                   attempt, wake, prev, calls, nth, firsts, answer, socketRetries,
                   recording>>

\* A faulty variant of grokSettled: the secondary provider is asked even
\* when the primary has answered with a profile.
grokSettled_alwaysAsksMimo(t, o) ==
    /\ pc[t] = "grok_wait"
    /\ IF providerProfile(o, "grok") # NoProfile /\ ~OPENROUTER_API_KEY
       THEN /\ profile' = [profile EXCEPT ![t] = providerProfile(o, "grok")]
            /\ trail' = note(t, <<"grok:ok">>)
            /\ getRedis_sync(t)
            /\ UNCHANGED ret
       ELSE IF ~OPENROUTER_API_KEY
       THEN /\ pc' = [pc EXCEPT ![t] = "done"]
            /\ ret' = [ret EXCEPT ![t] = fallbackRet(t, "provider")]
            /\ trail' = note(t, <<"grok:fail", "fallback">>)
            /\ UNCHANGED <<profile, client, redisConnecting>>
       ELSE /\ pc' = [pc EXCEPT ![t] = "mimo_wait"]
            /\ trail' = note(t, <<IF providerProfile(o, "grok") # NoProfile
                                  THEN "grok:ok" ELSE "grok:fail", "mimo:call">>)
            /\ UNCHANGED <<profile, client, redisConnecting, ret>>
    /\ answer' = noteAnswer(t, "grok", o)
    /\ UNCHANGED <<redis, redisLastError, cacheClients, trackConnVars, envVars,
                   storeVars, userRateLimits, clientInfo, attempt, wake, prev,
                   ghostWindow, unswept, socketRetries, calls, nth, firsts, recording>>

\* Lines 864-946: the Grok fetch settled with outcome o.
grokSettled(t, o) ==
    /\ pc[t] = "grok_wait"
    /\ IF providerProfile(o, "grok") # NoProfile
       THEN /\ profile' = [profile EXCEPT ![t] = providerProfile(o, "grok")]
            /\ trail' = note(t, <<"grok:ok">>)
            /\ getRedis_sync(t)
            /\ UNCHANGED ret
       ELSE IF ~OPENROUTER_API_KEY
       THEN /\ pc' = [pc EXCEPT ![t] = "done"]
            /\ ret' = [ret EXCEPT ![t] = fallbackRet(t, "provider")]
            /\ trail' = note(t, <<"grok:fail", "fallback">>)
            /\ UNCHANGED <<profile, client, redisConnecting>>
       ELSE /\ pc' = [pc EXCEPT ![t] = "mimo_wait"]
            /\ trail' = note(t, <<"grok:fail", "mimo:call">>)
            /\ UNCHANGED <<profile, client, redisConnecting, ret>>
    /\ answer' = noteAnswer(t, "grok", o)
    /\ UNCHANGED <<redis, redisLastError, cacheClients, trackConnVars, envVars,
                   storeVars, userRateLimits, clientInfo, attempt, wake, prev,
                   ghostWindow, unswept, socketRetries, calls, nth, firsts, recording>>

\* Lines 795-848 and their callers: the MiMo fetch settled with outcome o.
mimoSettled(t, o) ==
    /\ pc[t] = "mimo_wait"
    /\ IF providerProfile(o, "mimo") # NoProfile
       THEN /\ profile' = [profile EXCEPT ![t] = providerProfile(o, "mimo")]
            /\ trail' = note(t, <<"mimo:ok">>)
            /\ getRedis_sync(t)
            /\ UNCHANGED ret
       ELSE /\ pc' = [pc EXCEPT ![t] = "done"]
            /\ ret' = [ret EXCEPT ![t] = fallbackRet(t, "provider")]
            /\ trail' = note(t, <<"mimo:fail", "fallback">>)
            /\ UNCHANGED <<profile, client, redisConnecting>>
    /\ answer' = noteAnswer(t, "mimo", o)
    /\ UNCHANGED <<redis, redisLastError, cacheClients, trackConnVars, envVars,
                   storeVars, userRateLimits, clientInfo, attempt, wake, prev,
                   ghostWindow, unswept, socketRetries, calls, nth, firsts, recording>>

\* Lines 864 and 802: fetch is called without a signal or a timeout; a
\* provider that accepts the request and never answers leaves the await
\* pending for good.
providerHangs(t) ==
    /\ pc[t] \in {"grok_wait", "mimo_wait"}
    /\ pc' = [pc EXCEPT ![t] = IF pc[t] = "grok_wait" THEN "grok_hung" ELSE "mimo_hung"]
    /\ UNCHANGED <<connVars, trackConnVars, envVars, storeVars, userRateLimits,
                   clientInfo, client, profile, attempt, wake, ret, trail, histVars>>

aiRet(t) == [profile |-> profile[t], source |-> "ai", error |-> ""]

\* Lines 196-199: getRedis has returned to cacheProfile.
cacheProfile_acquired(t) ==
    /\ pc[t] = "getRedis_ret"
    /\ ~isAuction(t)
    /\ profile[t] # NoProfile
    /\ IF client[t] = Null
       THEN /\ pc' = [pc EXCEPT ![t] = "done"]
            /\ ret' = [ret EXCEPT ![t] = aiRet(t)]
            /\ trail' = note(t, <<"put:unavailable">>)
       ELSE /\ pc' = [pc EXCEPT ![t] = "setEx_wait"]
            /\ UNCHANGED <<ret, trail>>
    /\ UNCHANGED <<connVars, trackConnVars, envVars, storeVars, userRateLimits,
                   clientInfo, client, profile, attempt, wake, histVars>>

\* A faulty variant of cacheProfile_stored: an entry already in the store
\* is not overwritten.
cacheProfile_stored_keepsFirst(t) ==
    /\ pc[t] = "setEx_wait"
    /\ cacheClients[client[t]] = "ready"
    /\ storeUp
    /\ cacheStore' = cacheStore @@
                     (cacheKeyOf(clientInfo[t]) :>
                         [value |-> JSONstringify(profile[t]), ttl |-> CACHE_TTL])
    /\ pc' = [pc EXCEPT ![t] = "done"]
    /\ ret' = [ret EXCEPT ![t] = aiRet(t)]
    /\ trail' = note(t, <<"put:ok">>)
    /\ client' = [client EXCEPT ![t] = Null]
    /\ UNCHANGED <<connVars, trackConnVars, envVars, visitorSet, userRateLimits,
                   clientInfo, profile, attempt, wake, histVars>>

\* Lines 199-200: client.setEx resolved; the caller returns the profile.
cacheProfile_stored(t) ==
    /\ pc[t] = "setEx_wait"
    /\ cacheClients[client[t]] = "ready"
    /\ storeUp
    /\ cacheStore' = (cacheKeyOf(clientInfo[t]) :>
                         [value |-> JSONstringify(profile[t]), ttl |-> CACHE_TTL])
                     @@ cacheStore
    /\ pc' = [pc EXCEPT ![t] = "done"]
    /\ ret' = [ret EXCEPT ![t] = aiRet(t)]
    /\ trail' = note(t, <<"put:ok">>)
    /\ client' = [client EXCEPT ![t] = Null]
    /\ UNCHANGED <<connVars, trackConnVars, envVars, visitorSet, userRateLimits,
                   clientInfo, profile, attempt, wake, histVars>>

\* Lines 201-203: client.setEx rejected; the catch swallows the error.
cacheProfile_failed(t) ==
    /\ pc[t] = "setEx_wait"
    /\ cacheClients[client[t]] = "closed" \/ ~storeUp
    /\ pc' = [pc EXCEPT ![t] = "done"]
    /\ ret' = [ret EXCEPT ![t] = aiRet(t)]
    /\ trail' = note(t, <<"put:error">>)
    /\ client' = [client EXCEPT ![t] = Null]
    /\ UNCHANGED <<connVars, trackConnVars, envVars, storeVars, userRateLimits,
                   clientInfo, profile, attempt, wake, histVars>>

InTrail(t, tag) == \E i \in DOMAIN trail[t] : trail[t][i] = tag

\* The caller of generateAIProfile has the result; the slot is free again.
\* History: what the call returned is remembered under its cache key.
profileReturned(t) ==
    /\ pc[t] = "done"
    /\ prev' = IF "prev" \in recording
               THEN (cacheKeyOf(clientInfo[t]) :>
                        [profile |-> ret[t].profile, source |-> ret[t].source,
                         stored |-> InTrail(t, "put:ok")])
                    @@ prev
               ELSE prev
    /\ pc' = [pc EXCEPT ![t] = "idle"]
    /\ clientInfo' = [clientInfo EXCEPT ![t] = NoRequest]
    /\ profile' = [profile EXCEPT ![t] = NoProfile]
    /\ ret' = [ret EXCEPT ![t] = NoRet]
    /\ trail' = [trail EXCEPT ![t] = <<>>]
    /\ nth' = [nth EXCEPT ![t] = 0]
    /\ answer' = [answer EXCEPT ![t] = NoAnswer]
    /\ UNCHANGED <<connVars, trackConnVars, envVars, storeVars, userRateLimits,
                   client, attempt, wake, ghostWindow, unswept, socketRetries, calls, firsts,
                   recording>>

(* ------------------------------------------------------------------ *)
(* generateAIAuction                                                    *)
(* ------------------------------------------------------------------ *)
AUCTION_CACHE_TTL == 60 * 60

\* A JSON array of n elements.
JArr(n) == [t |-> "array", v |-> n, s |-> ""]

\* A profile summary: its first 24 bytes and the rest. The first 32
\* characters of a Base64 text encode exactly the first 24 bytes.
Summary(head, rest) == [head |-> head, rest |-> rest]
\* Line 1188: Buffer.from(profileSummary).toString('base64').slice(0, 32).
profileHash(profileSummary) == "base64(" \o profileSummary.head \o ")"
\* Line 1189.
auctionKeyOf(req) ==
    "yourinfo:auction:" \o profileHash(req.profileSummary) \o ":" \o req.countryCode

AuctionRequests ==
    {[profileSummary |-> Summary("Developer, premium device", ""),
      country |-> "Canada", countryCode |-> "CA"]}

\* A provider's message content for an auction: the fields
\* parseAuctionResponse reads.
AuctionDoc(bids, valueFactors) == [bids |-> bids, valueFactors |-> valueFactors]
AuctionTexts ==
    { [syntax |-> "garbage", doc |-> AuctionDoc(JUndef, JUndef)],
      [syntax |-> "json", doc |-> AuctionDoc(JStr("none"), JArr(1))],
      [syntax |-> "json", doc |-> AuctionDoc(JArr(2), JUndef)],
      [syntax |-> "json", doc |-> AuctionDoc(JArr(0), JArr(1))] }

\* x || d, for the values modelled.
OrElse(x, d) == IF x.t \in {"null", "undefined"} THEN d ELSE x

\* Lines 1126-1149: null for unparseable text and for a document whose bids
\* is not an array.
parseAuctionResponse(text) ==
    IF text.syntax # "json" THEN NoProfile
    ELSE IF text.doc.bids.t # "array" THEN NoProfile
    ELSE [bids |-> text.doc.bids,
          valueFactors |-> OrElse(text.doc.valueFactors, JArr(0)),
          source |-> JStr("grok")]

AuctionOutcomes ==
    {[kind |-> k, text |-> [syntax |-> "garbage", doc |-> AuctionDoc(JUndef, JUndef)]] :
        k \in {"throw", "http", "empty"}}
        \cup {[kind |-> "text", text |-> x] : x \in AuctionTexts}

\* Lines 1262-1275 (Grok) and 1225-1238 (MiMo): the result a provider call
\* yields, NoProfile when the chain has to fall through.
providerAuction(o, source) ==
    IF o.kind # "text" THEN NoProfile
    ELSE IF parseAuctionResponse(o.text) = NoProfile THEN NoProfile
    ELSE [parseAuctionResponse(o.text) EXCEPT !.source = JStr(source)]

\* A faulty variant of auctionFallback: the failure of the providers is
\* handed to the caller instead of the empty result.
auctionFallback_failsOutward ==
    [bids |-> JUndef, valueFactors |-> JUndef, source |-> JStr("error")]

\* Lines 1294-1299.
auctionFallback == [bids |-> JArr(0), valueFactors |-> JArr(0), source |-> JStr("fallback")]

\* Lines 1195-1246 and 1286: what follows a cache miss, up to the next
\* await. `tag` is how the lookup ended.
auctionAfterMiss(t, tag) ==
    /\ client' = [client EXCEPT ![t] = Null]
    /\ IF GROK_API_KEY
       THEN /\ pc' = [pc EXCEPT ![t] = "auction_grok_wait"]
            /\ trail' = note(t, <<tag, "grok:call">>)
            /\ UNCHANGED ret
       ELSE IF OPENROUTER_API_KEY
       THEN /\ pc' = [pc EXCEPT ![t] = "auction_mimo_wait"]
            /\ trail' = note(t, <<tag, "mimo:call">>)
            /\ UNCHANGED ret
       ELSE /\ pc' = [pc EXCEPT ![t] = "auction_done"]
            /\ ret' = [ret EXCEPT ![t] = auctionFallback]
            /\ trail' = note(t, <<tag, "fallback">>)

\* Lines 1182-1192: the call, up to the await inside getRedis.
generateAIAuction(t, req) ==
    /\ pc[t] = "idle"
    /\ clientInfo' = [clientInfo EXCEPT ![t] = req]
    /\ getRedis_sync(t)
    /\ UNCHANGED <<redis, redisLastError, cacheClients, trackConnVars, envVars,
                   storeVars, userRateLimits, profile, attempt, wake, ret, trail,
                   histVars>>

\* Lines 1156-1159: getRedis has returned to getAuctionCache.
getAuctionCache_acquired(t) ==
    /\ pc[t] = "getRedis_ret"
    /\ isAuction(t)
    /\ profile[t] = NoProfile
    /\ IF client[t] = Null
       THEN auctionAfterMiss(t, "cache:unavailable")
       ELSE /\ pc' = [pc EXCEPT ![t] = "auction_get_wait"]
            /\ UNCHANGED <<client, ret, trail>>
    /\ UNCHANGED <<connVars, trackConnVars, envVars, storeVars, userRateLimits,
                   clientInfo, profile, attempt, wake, histVars>>

\* Lines 1159-1167 and 1192-1195: client.get resolved. A stored string that
\* JSON.parse rejects ends in the catch, which returns null.
getAuctionCache_got(t) ==
    /\ pc[t] = "auction_get_wait"
    /\ cacheClients[client[t]] = "ready"
    /\ storeUp
    /\ IF auctionKeyOf(clientInfo[t]) \notin DOMAIN cacheStore
       THEN auctionAfterMiss(t, "cache:miss")
       ELSE IF ~JSONparses(cacheStore[auctionKeyOf(clientInfo[t])].value)
       THEN auctionAfterMiss(t, "cache:corrupt")
       ELSE /\ pc' = [pc EXCEPT ![t] = "auction_done"]
            /\ ret' = [ret EXCEPT ![t] =
                         JSONparse(cacheStore[auctionKeyOf(clientInfo[t])].value)]
            /\ trail' = note(t, <<"cache:hit">>)
            /\ client' = [client EXCEPT ![t] = Null]
    /\ UNCHANGED <<connVars, trackConnVars, envVars, storeVars, userRateLimits,
                   clientInfo, profile, attempt, wake, histVars>>

\* Lines 1164-1167: client.get rejected; the catch returns null.
getAuctionCache_failed(t) ==
    /\ pc[t] = "auction_get_wait"
    /\ cacheClients[client[t]] = "closed" \/ ~storeUp
    /\ auctionAfterMiss(t, "cache:error")
    /\ UNCHANGED <<connVars, trackConnVars, envVars, storeVars, userRateLimits,
                   clientInfo, profile, attempt, wake, histVars>>

\* Lines 1246-1283 and 1286-1299: the Grok fetch settled with outcome o.
auctionGrokSettled(t, o) ==
    /\ pc[t] = "auction_grok_wait"
    /\ IF providerAuction(o, "grok") # NoProfile
       THEN /\ profile' = [profile EXCEPT ![t] = providerAuction(o, "grok")]
            /\ trail' = note(t, <<"grok:ok">>)
            /\ getRedis_sync(t)
            /\ UNCHANGED ret
       ELSE IF ~OPENROUTER_API_KEY
       THEN /\ pc' = [pc EXCEPT ![t] = "auction_done"]
            /\ ret' = [ret EXCEPT ![t] = auctionFallback]
            /\ trail' = note(t, <<"grok:fail", "fallback">>)
            /\ UNCHANGED <<profile, client, redisConnecting>>
       ELSE /\ pc' = [pc EXCEPT ![t] = "auction_mimo_wait"]
            /\ trail' = note(t, <<"grok:fail", "mimo:call">>)
            /\ UNCHANGED <<profile, client, redisConnecting, ret>>
    /\ UNCHANGED <<redis, redisLastError, cacheClients, trackConnVars, envVars,
                   storeVars, userRateLimits, clientInfo, attempt, wake, histVars>>

\* Lines 1201-1243 and 1286-1299: the MiMo fetch settled with outcome o.
auctionMimoSettled(t, o) ==
    /\ pc[t] = "auction_mimo_wait"
    /\ IF providerAuction(o, "mimo") # NoProfile
       THEN /\ profile' = [profile EXCEPT ![t] = providerAuction(o, "mimo")]
            /\ trail' = note(t, <<"mimo:ok">>)
            /\ getRedis_sync(t)
            /\ UNCHANGED ret
       ELSE /\ pc' = [pc EXCEPT ![t] = "auction_done"]
            /\ ret' = [ret EXCEPT ![t] = auctionFallback]
            /\ trail' = note(t, <<"mimo:fail", "fallback">>)
            /\ UNCHANGED <<profile, client, redisConnecting>>
    /\ UNCHANGED <<redis, redisLastError, cacheClients, trackConnVars, envVars,
                   storeVars, userRateLimits, clientInfo, attempt, wake, histVars>>

\* Lines 1172-1175: getRedis has returned to setAuctionCache.
setAuctionCache_acquired(t) ==
    /\ pc[t] = "getRedis_ret"
    /\ isAuction(t)
    /\ profile[t] # NoProfile
    /\ IF client[t] = Null
       THEN /\ pc' = [pc EXCEPT ![t] = "auction_done"]
            /\ ret' = [ret EXCEPT ![t] = profile[t]]
            /\ trail' = note(t, <<"put:unavailable">>)
       ELSE /\ pc' = [pc EXCEPT ![t] = "auction_setEx_wait"]
            /\ UNCHANGED <<ret, trail>>
    /\ UNCHANGED <<connVars, trackConnVars, envVars, storeVars, userRateLimits,
                   clientInfo, client, profile, attempt, wake, histVars>>

\* Lines 1175-1176: client.setEx resolved; the caller returns the result.
setAuctionCache_stored(t) ==
    /\ pc[t] = "auction_setEx_wait"
    /\ cacheClients[client[t]] = "ready"
    /\ storeUp
    /\ cacheStore' = (auctionKeyOf(clientInfo[t]) :>
                         [value |-> JSONstringify(profile[t]), ttl |-> AUCTION_CACHE_TTL])
                     @@ cacheStore
    /\ pc' = [pc EXCEPT ![t] = "auction_done"]
    /\ ret' = [ret EXCEPT ![t] = profile[t]]
    /\ trail' = note(t, <<"put:ok">>)
    /\ client' = [client EXCEPT ![t] = Null]
    /\ UNCHANGED <<connVars, trackConnVars, envVars, visitorSet, userRateLimits,
                   clientInfo, profile, attempt, wake, histVars>>

\* Lines 1177-1179: client.setEx rejected; the catch swallows the error.
setAuctionCache_failed(t) ==
    /\ pc[t] = "auction_setEx_wait"
    /\ cacheClients[client[t]] = "closed" \/ ~storeUp
    /\ pc' = [pc EXCEPT ![t] = "auction_done"]
    /\ ret' = [ret EXCEPT ![t] = profile[t]]
    /\ trail' = note(t, <<"put:error">>)
    /\ client' = [client EXCEPT ![t] = Null]
    /\ UNCHANGED <<connVars, trackConnVars, envVars, storeVars, userRateLimits,
                   clientInfo, profile, attempt, wake, histVars>>

\* The caller of generateAIAuction has the result; the slot is free again.
auctionReturned(t) ==
    /\ pc[t] = "auction_done"
    /\ pc' = [pc EXCEPT ![t] = "idle"]
    /\ clientInfo' = [clientInfo EXCEPT ![t] = NoRequest]
    /\ profile' = [profile EXCEPT ![t] = NoProfile]
    /\ ret' = [ret EXCEPT ![t] = NoRet]
    /\ trail' = [trail EXCEPT ![t] = <<>>]
    /\ UNCHANGED <<connVars, trackConnVars, envVars, storeVars, userRateLimits,
                   client, attempt, wake, histVars>>

(* ------------------------------------------------------------------ *)
(* Environment: the clock, the sweep timer, the Redis server            *)
(* ------------------------------------------------------------------ *)
\* Some timestamp of the program is pending: only then does the passing
\* of time make a difference to it.
timeMatters ==
    \/ redisLastError > 0
    \/ trackingRedisLastError > 0
    \/ DOMAIN userRateLimits # {}
    \/ \E t \in Tasks : pc[t] \in {"sleep", "count_sleep"}

Tick(d) ==
    /\ ticks < MaxTicks
    /\ timeMatters
    /\ now' = now + d
    /\ ticks' = ticks + 1
    /\ UNCHANGED <<storeUp, GROK_API_KEY, OPENROUTER_API_KEY, env_REDIS_URL, connVars,
                   trackConnVars,
                   storeVars, userRateLimits, taskVars, histVars>>

\* Lines 137-144: the setInterval callback.
sweep ==
    /\ userRateLimits' = [u \in sweepKeeps(userRateLimits, now) |-> userRateLimits[u]]
    /\ UNCHANGED <<envVars, connVars, trackConnVars, storeVars, taskVars, histVars>>

\* History: the calls in progress see the store change to `tag`; of
\* successive changes between two steps of a call the last one is kept.
HealthTags == {"store:up", "store:down"}
noteHealth(tag) ==
    IF "health" \in recording
    THEN [t \in Tasks |->
            IF pc[t] = "idle" THEN trail[t]
            ELSE IF trail[t] # <<>> /\ trail[t][Len(trail[t])] \in HealthTags
            THEN [trail[t] EXCEPT ![Len(trail[t])] = tag]
            ELSE trail[t] \o <<tag>>]
    ELSE trail

storeFails ==
    /\ storeUp
    /\ storeUp' = FALSE
    /\ trail' = noteHealth("store:down")
    /\ UNCHANGED <<now, ticks, GROK_API_KEY, OPENROUTER_API_KEY, env_REDIS_URL, connVars,
                   trackConnVars, storeVars, userRateLimits, pc, clientInfo, client,
                   profile, attempt, wake, ret, histVars>>

\* Another writer of the store leaves a string that is not JSON under a
\* key of the cache.
storeCorrupted(k) ==
    /\ storeUp
    /\ cacheStore' = (k :> [value |-> Unparseable, ttl |-> CACHE_TTL]) @@ cacheStore
    /\ cacheStore' # cacheStore
    /\ UNCHANGED <<envVars, connVars, trackConnVars, visitorSet, userRateLimits,
                   taskVars, histVars>>

storeRecovers ==
    /\ ~storeUp
    /\ storeUp' = TRUE
    /\ trail' = noteHealth("store:up")
    /\ UNCHANGED <<now, ticks, GROK_API_KEY, OPENROUTER_API_KEY, env_REDIS_URL, connVars,
                   trackConnVars, storeVars, userRateLimits, pc, clientInfo, client,
                   profile, attempt, wake, ret, histVars>>

(* ------------------------------------------------------------------ *)
(* trackUniqueVisitor                                                   *)
(* ------------------------------------------------------------------ *)
\* Line 971.
visitorKeyOf(ci) == userIdOf(ci.fingerprintId, ci.crossBrowserId)

\* The arguments of a call that takes none.
NoArgs == [none |-> TRUE]

\* A faulty variant of sAdd: a reply of 1 whether or not the member is new.
sAdd_alwaysOne(members, m) == [members |-> members \cup {m}, added |-> 1]

\* Line 985: the Redis command SADD key member, its reply and the set after it.
sAdd(members, m) ==
    [members |-> members \cup {m}, added |-> IF m \in members THEN 0 ELSE 1]

\* Line 1022: the Redis command SCARD key.
sCard(members) == Cardinality(members)

\* History: one more call has returned true for visitor k (counts beyond 2
\* are not told apart).
firstNote(f, k) ==
    IF k \in DOMAIN f THEN [f EXCEPT ![k] = Min2(@ + 1, 2)] ELSE (k :> 1) @@ f

\* A faulty variant of retryOrGiveUp: the same delay before every attempt.
retryOrGiveUp_constantDelay(t) ==
    IF attempt[t] < maxRetries
    THEN /\ pc' = [pc EXCEPT ![t] = "sleep"]
         /\ wake' = [wake EXCEPT ![t] = now + RETRY_DELAY_MS]
         /\ UNCHANGED ret
    ELSE /\ pc' = [pc EXCEPT ![t] = "track_done"]
         /\ ret' = [ret EXCEPT ![t] = [isNew |-> FALSE]]
         /\ UNCHANGED wake

\* Lines 978-982 and 997-999: after a failed attempt, sleep 100 * attempt
\* ms before the next one, or return false after the last.
retryOrGiveUp(t) ==
    IF attempt[t] < maxRetries
    THEN /\ pc' = [pc EXCEPT ![t] = "sleep"]
         /\ wake' = [wake EXCEPT ![t] = now + RETRY_DELAY_MS * attempt[t]]
         /\ UNCHANGED ret
    ELSE /\ pc' = [pc EXCEPT ![t] = "track_done"]
         /\ ret' = [ret EXCEPT ![t] = [isNew |-> FALSE]]
         /\ UNCHANGED wake

\* Lines 970-976: the call, up to the await inside getTrackingRedis.
trackUniqueVisitor(t, ci) ==
    /\ pc[t] = "idle"
    /\ clientInfo' = [clientInfo EXCEPT ![t] = ci]
    /\ attempt' = [attempt EXCEPT ![t] = 1]
    /\ getTrackingRedis_sync(t)
    /\ UNCHANGED <<trackingRedis, trackingRedisLastError, trackingClients, connVars,
                   envVars, storeVars, userRateLimits, profile, wake, ret, trail,
                   histVars>>

\* Lines 976-985: getTrackingRedis has returned.
trackUniqueVisitor_acquired(t) ==
    /\ pc[t] = "getTrackingRedis_ret"
    /\ clientInfo[t] # NoArgs
    /\ IF client[t] = Null
       THEN /\ retryOrGiveUp(t)
            /\ trail' = note(t, <<"acquire:unavailable">>)
       ELSE /\ pc' = [pc EXCEPT ![t] = "sAdd_wait"]
            /\ UNCHANGED <<wake, ret, trail>>
    /\ UNCHANGED <<connVars, trackConnVars, envVars, storeVars, userRateLimits,
                   clientInfo, client, profile, attempt, histVars>>

\* Lines 979 and 998: the timer fired; the loop goes to its next attempt.
trackUniqueVisitor_retry(t) ==
    /\ pc[t] = "sleep"
    /\ clientInfo[t] # NoArgs
    /\ now >= wake[t]
    /\ attempt' = [attempt EXCEPT ![t] = @ + 1]
    /\ wake' = [wake EXCEPT ![t] = 0]
    /\ getTrackingRedis_sync(t)
    /\ UNCHANGED <<trackingRedis, trackingRedisLastError, trackingClients, connVars,
                   envVars, storeVars, userRateLimits, clientInfo, profile, ret, trail,
                   histVars>>

\* Lines 985-986: client.sAdd resolved.
trackUniqueVisitor_added(t) ==
    /\ pc[t] = "sAdd_wait"
    /\ trackingClients[client[t]] = "ready"
    /\ storeUp
    /\ visitorSet' = sAdd(visitorSet, visitorKeyOf(clientInfo[t])).members
    /\ ret' = [ret EXCEPT ![t] =
                 [isNew |-> sAdd(visitorSet, visitorKeyOf(clientInfo[t])).added = 1]]
    /\ pc' = [pc EXCEPT ![t] = "track_done"]
    /\ client' = [client EXCEPT ![t] = Null]
    /\ trail' = note(t, <<"sAdd:ok">>)
    /\ firsts' = IF "firsts" \in recording /\ ret'[t].isNew
                 THEN firstNote(firsts, visitorKeyOf(clientInfo[t]))
                 ELSE firsts
    /\ UNCHANGED <<connVars, trackConnVars, envVars, cacheStore, userRateLimits,
                   clientInfo, profile, attempt, wake, prev, ghostWindow, unswept,
                   socketRetries, calls, nth,
                   answer, recording>>

\* The server has executed the SADD of the call in slot t and the store
\* fails before the reply reaches the client: the member is in the set, the
\* pending sAdd will be rejected.
storeFails_afterSAdd(t) ==
    /\ storeUp
    /\ pc[t] = "sAdd_wait"
    /\ trackingClients[client[t]] = "ready"
    /\ visitorSet' = sAdd(visitorSet, visitorKeyOf(clientInfo[t])).members
    /\ storeUp' = FALSE
    /\ trail' = noteHealth("store:down")
    /\ UNCHANGED <<now, ticks, GROK_API_KEY, OPENROUTER_API_KEY, env_REDIS_URL, connVars,
                   trackConnVars, cacheStore, userRateLimits, pc, clientInfo, client,
                   profile, attempt, wake, ret, histVars>>

\* A faulty variant of trackUniqueVisitor_failed: the catch takes the
\* visitor out of the set again.
trackUniqueVisitor_failed_removes(t) ==
    /\ pc[t] = "sAdd_wait"
    /\ trackingClients[client[t]] = "closed" \/ ~storeUp
    /\ client' = [client EXCEPT ![t] = Null]
    /\ trail' = note(t, <<"sAdd:rejected">>)
    /\ visitorSet' = visitorSet \ {visitorKeyOf(clientInfo[t])}
    /\ IF trackingRedis # Null
       THEN /\ trackingClients' = [trackingClients EXCEPT ![trackingRedis] = "closed"]
            /\ pc' = [pc EXCEPT ![t] = "disconnect_wait"]
            /\ UNCHANGED <<wake, ret>>
       ELSE /\ retryOrGiveUp(t)
            /\ UNCHANGED trackingClients
    /\ UNCHANGED <<trackingRedis, trackingRedisConnecting, trackingRedisLastError,
                   connVars, envVars, cacheStore, userRateLimits, clientInfo, profile,
                   attempt, histVars>>

\* Lines 987-994: client.sAdd rejected; the catch calls disconnect() on
\* whatever trackingRedis holds now (a closed client throws, swallowed).
trackUniqueVisitor_failed(t) ==
    /\ pc[t] = "sAdd_wait"
    /\ trackingClients[client[t]] = "closed" \/ ~storeUp
    /\ client' = [client EXCEPT ![t] = Null]
    /\ trail' = note(t, <<"sAdd:rejected">>)
    /\ IF trackingRedis # Null
       THEN /\ trackingClients' = [trackingClients EXCEPT ![trackingRedis] = "closed"]
            /\ pc' = [pc EXCEPT ![t] = "disconnect_wait"]
            /\ UNCHANGED <<wake, ret>>
       ELSE /\ retryOrGiveUp(t)
            /\ UNCHANGED trackingClients
    /\ UNCHANGED <<trackingRedis, trackingRedisConnecting, trackingRedisLastError,
                   connVars, envVars, storeVars, userRateLimits, clientInfo, profile,
                   attempt, histVars>>

\* A faulty variant of trackUniqueVisitor_reset: the closed client stays in
\* the module variable.
trackUniqueVisitor_reset_keepsHandle(t) ==
    /\ pc[t] = "disconnect_wait"
    /\ retryOrGiveUp(t)
    /\ UNCHANGED <<trackConnVars, connVars, envVars, storeVars, userRateLimits,
                   clientInfo, client, profile, attempt, trail, histVars>>

\* Lines 995-999: disconnect() settled; trackingRedis = null.
trackUniqueVisitor_reset(t) ==
    /\ pc[t] = "disconnect_wait"
    /\ trackingRedis' = Null
    /\ retryOrGiveUp(t)
    /\ UNCHANGED <<trackingRedisConnecting, trackingRedisLastError, trackingClients,
                   connVars, envVars, storeVars, userRateLimits, clientInfo, client,
                   profile, attempt, trail, histVars>>

\* The caller of trackUniqueVisitor has the result; the slot is free again.
trackReturned(t) ==
    /\ pc[t] = "track_done"
    /\ pc' = [pc EXCEPT ![t] = "idle"]
    /\ clientInfo' = [clientInfo EXCEPT ![t] = NoRequest]
    /\ attempt' = [attempt EXCEPT ![t] = 0]
    /\ ret' = [ret EXCEPT ![t] = NoRet]
    /\ trail' = [trail EXCEPT ![t] = <<>>]
    /\ UNCHANGED <<connVars, trackConnVars, envVars, storeVars, userRateLimits,
                   client, profile, wake, histVars>>

(* ------------------------------------------------------------------ *)
(* getTotalUniqueVisitors                                               *)
(* ------------------------------------------------------------------ *)
\* A faulty variant of countRetryOrGiveUp: exhaustion fails outward.
countRetryOrGiveUp_failsOutward(t) ==
    IF attempt[t] < getTotalUniqueVisitors_maxRetries
    THEN /\ pc' = [pc EXCEPT ![t] = "count_sleep"]
         /\ wake' = [wake EXCEPT ![t] = now + RETRY_DELAY_MS]
         /\ UNCHANGED ret
    ELSE /\ pc' = [pc EXCEPT ![t] = "count_done"]
         /\ ret' = [ret EXCEPT ![t] = [count |-> 0, error |-> "Unavailable"]]
         /\ UNCHANGED wake

\* Lines 1015-1019 and 1026-1028: after a failed attempt, sleep 100 ms
\* before the next one, or return 0 after the last.
countRetryOrGiveUp(t) ==
    IF attempt[t] < getTotalUniqueVisitors_maxRetries
    THEN /\ pc' = [pc EXCEPT ![t] = "count_sleep"]
         /\ wake' = [wake EXCEPT ![t] = now + RETRY_DELAY_MS]
         /\ UNCHANGED ret
    ELSE /\ pc' = [pc EXCEPT ![t] = "count_done"]
         /\ ret' = [ret EXCEPT ![t] = [count |-> 0, error |-> ""]]
         /\ UNCHANGED wake

\* Lines 1008-1013: the call, up to the await inside getTrackingRedis.
getTotalUniqueVisitors(t) ==
    /\ pc[t] = "idle"
    /\ clientInfo' = [clientInfo EXCEPT ![t] = NoArgs]
    /\ attempt' = [attempt EXCEPT ![t] = 1]
    /\ getTrackingRedis_sync(t)
    /\ UNCHANGED <<trackingRedis, trackingRedisLastError, trackingClients, connVars,
                   envVars, storeVars, userRateLimits, profile, wake, ret, trail,
                   histVars>>

\* Lines 1013-1022: getTrackingRedis has returned.
getTotalUniqueVisitors_acquired(t) ==
    /\ pc[t] = "getTrackingRedis_ret"
    /\ clientInfo[t] = NoArgs
    /\ IF client[t] = Null
       THEN /\ countRetryOrGiveUp(t)
            /\ trail' = note(t, <<"acquire:unavailable">>)
       ELSE /\ pc' = [pc EXCEPT ![t] = "sCard_wait"]
            /\ UNCHANGED <<wake, ret, trail>>
    /\ UNCHANGED <<connVars, trackConnVars, envVars, storeVars, userRateLimits,
                   clientInfo, client, profile, attempt, histVars>>

\* Lines 1016 and 1027: the timer fired; the loop goes to its next attempt.
getTotalUniqueVisitors_retry(t) ==
    /\ pc[t] = "count_sleep"
    /\ now >= wake[t]
    /\ attempt' = [attempt EXCEPT ![t] = @ + 1]
    /\ wake' = [wake EXCEPT ![t] = 0]
    /\ getTrackingRedis_sync(t)
    /\ UNCHANGED <<trackingRedis, trackingRedisLastError, trackingClients, connVars,
                   envVars, storeVars, userRateLimits, clientInfo, profile, ret, trail,
                   histVars>>

\* Line 1022: client.sCard resolved.
getTotalUniqueVisitors_counted(t) ==
    /\ pc[t] = "sCard_wait"
    /\ trackingClients[client[t]] = "ready"
    /\ storeUp
    /\ ret' = [ret EXCEPT ![t] = [count |-> sCard(visitorSet), error |-> ""]]
    /\ pc' = [pc EXCEPT ![t] = "count_done"]
    /\ client' = [client EXCEPT ![t] = Null]
    /\ trail' = note(t, <<"sCard:ok">>)
    /\ UNCHANGED <<connVars, trackConnVars, envVars, storeVars, userRateLimits,
                   clientInfo, profile, attempt, wake, histVars>>

\* Lines 1023-1029: client.sCard rejected; the catch leaves the connection
\* as it is.
getTotalUniqueVisitors_failed(t) ==
    /\ pc[t] = "sCard_wait"
    /\ trackingClients[client[t]] = "closed" \/ ~storeUp
    /\ client' = [client EXCEPT ![t] = Null]
    /\ trail' = note(t, <<"sCard:rejected">>)
    /\ countRetryOrGiveUp(t)
    /\ UNCHANGED <<connVars, trackConnVars, envVars, storeVars, userRateLimits,
                   clientInfo, profile, attempt, histVars>>

\* The caller of getTotalUniqueVisitors has the result; the slot is free.
totalReturned(t) ==
    /\ pc[t] = "count_done"
    /\ pc' = [pc EXCEPT ![t] = "idle"]
    /\ clientInfo' = [clientInfo EXCEPT ![t] = NoRequest]
    /\ attempt' = [attempt EXCEPT ![t] = 0]
    /\ ret' = [ret EXCEPT ![t] = NoRet]
    /\ trail' = [trail EXCEPT ![t] = <<>>]
    /\ UNCHANGED <<connVars, trackConnVars, envVars, storeVars, userRateLimits,
                   client, profile, wake, histVars>>

(* ------------------------------------------------------------------ *)
(* Specifications                                                       *)
(* ------------------------------------------------------------------ *)
\* The state after the module has loaded: store URLs from `urls`, provider
\* keys set as in `grok` and `openrouter`, history kept as in `rec`.
InitAt(urls, grok, openrouter, rec) ==
    /\ now = StartTime
    /\ ticks = 0
    /\ storeUp \in BOOLEAN
    /\ redis = Null
    /\ redisConnecting = FALSE
    /\ redisLastError = 0
    /\ cacheClients = [h \in Handles |-> "closed"]
    /\ trackingRedis = Null
    /\ trackingRedisConnecting = FALSE
    /\ trackingRedisLastError = 0
    /\ trackingClients = [h \in Handles |-> "closed"]
    /\ userRateLimits = <<>>
    /\ cacheStore = <<>>
    /\ visitorSet = {}
    /\ GROK_API_KEY \in grok
    /\ OPENROUTER_API_KEY \in openrouter
    /\ env_REDIS_URL \in urls
    /\ pc = [t \in Tasks |-> "idle"]
    /\ clientInfo = [t \in Tasks |-> NoRequest]
    /\ client = [t \in Tasks |-> Null]
    /\ profile = [t \in Tasks |-> NoProfile]
    /\ attempt = [t \in Tasks |-> 0]
    /\ wake = [t \in Tasks |-> 0]
    /\ ret = [t \in Tasks |-> NoRet]
    /\ trail = [t \in Tasks |-> <<>>]
    /\ prev = <<>>
    /\ ghostWindow = <<>>
    /\ calls = <<>>
    /\ nth = [t \in Tasks |-> 0]
    /\ firsts = <<>>
    /\ answer = [t \in Tasks |-> NoAnswer]
    /\ unswept = <<>>
    /\ socketRetries = [h \in Handles |-> NoRetries]
    /\ recording = rec

InitWith(grok, openrouter, rec) == InitAt({StoreUrl}, grok, openrouter, rec)

\* One step of a generateAIProfile call in slot t: requests from R,
\* provider outcomes from O.
profileStep(t, R, O) ==
    \/ \E ci \in R : generateAIProfile(t, ci)
    \/ getRedis_create(t)
    \/ getRedis_connected(t)
    \/ getRedis_failed(t)
    \/ getCachedProfile_acquired(t)
    \/ getCachedProfile_got(t)
    \/ getCachedProfile_failed(t)
    \/ \E o \in O : grokSettled(t, o)
    \/ \E o \in O : mimoSettled(t, o)
    \/ cacheProfile_acquired(t)
    \/ cacheProfile_stored(t)
    \/ cacheProfile_failed(t)
    \/ profileReturned(t)

\* One step of a trackUniqueVisitor call in slot t.
trackStep(t, R) ==
    \/ \E ci \in R : trackUniqueVisitor(t, ci)
    \/ getTrackingRedis_create(t)
    \/ getTrackingRedis_connected(t)
    \/ getTrackingRedis_failed(t)
    \/ trackUniqueVisitor_acquired(t)
    \/ trackUniqueVisitor_retry(t)
    \/ trackUniqueVisitor_added(t)
    \/ trackUniqueVisitor_failed(t)
    \/ trackUniqueVisitor_reset(t)
    \/ trackReturned(t)

cacheLibStep ==
    \E h \in Handles : redisOnError(h) \/ redisReconnected(h) \/ redisGaveUp(h)

trackingLibStep ==
    \E h \in Handles :
        trackingRedisOnError(h) \/ trackingRedisReconnected(h) \/ trackingRedisGaveUp(h)

storeStep == storeFails \/ storeRecovers

\* The requests of one caller.
OneCaller == {r \in Requests : r.fingerprintId = "fpA"}

\* Provider outcomes, one of each effect: a failed call, a profile.
FewOutcomes ==
    {[kind |-> "throw", text |-> GarbageText],
     [kind |-> "text", text |-> JsonText(Doc(JBool(TRUE), JNum(150), JUndef, JNull))]}

\* One call at a time: the whole pipeline of generateAIProfile against every
\* provider configuration, provider outcome and store behaviour.
Init == InitWith(BOOLEAN, BOOLEAN, {"trail", "prev", "calls"})
Next ==
    \/ profileStep("t1", OneCaller, ProviderOutcomes)
    \/ cacheLibStep
    \/ storeStep
    \/ Tick(REDIS_BACKOFF_MS)
Spec == Init /\ [][Next]_vars

\* Concurrent calls of one caller through the rate gate, with the sweep
\* timer and the clock passing the end of a window.
RateInit == InitWith({TRUE}, BOOLEAN, {"ghostWindow", "calls"})
RateNext ==
    \/ \E t \in Tasks : profileStep(t, OneCaller, FewOutcomes)
    \/ sweep
    \/ storeStep
    \/ Tick(RATE_LIMIT_WINDOW)
RateSpec == RateInit /\ [][RateNext]_vars

\* Two providers' answers, both valid and different from each other.
RaceOutcomes ==
    {[kind |-> "text", text |-> JsonText(Doc(JBool(FALSE), JNum(20), JNum(10), JNum(90)))],
     [kind |-> "text", text |-> JsonText(Doc(JBool(TRUE), JNum(80), JNum(70), JNum(60)))]}

\* Two requests with the same key in flight at once, against providers
\* that answer each of them with a profile.
RaceInit == InitWith(BOOLEAN, {TRUE}, {"trail", "answer"})
RaceNext ==
    \/ \E t \in Tasks : profileStep(t, OneCaller, RaceOutcomes)
    \/ cacheLibStep
    \/ storeStep
RaceSpec == RaceInit /\ [][RaceNext]_vars

\* Calls of two callers through the rate gate while the sweep timer fires
\* at any point between their steps.
SweepInit == InitWith({TRUE}, BOOLEAN, {"unswept"})
SweepNext ==
    \/ \E t \in Tasks : profileStep(t, Requests, FewOutcomes)
    \/ sweep
    \/ storeFails
    \/ Tick(RATE_LIMIT_WINDOW)
SweepSpec == SweepInit /\ [][SweepNext]_vars

\* A provider that always answers with a profile.
GoodOutcomes ==
    {[kind |-> "text", text |-> JsonText(Doc(JBool(TRUE), JNum(150), JUndef, JNull))]}

\* One step of a generateAIProfile call in slot t when Grok is the only
\* provider configured and answers with a profile.
grokProfileStep(t) ==
    \/ \E ci \in OneCaller : generateAIProfile(t, ci)
    \/ getRedis_create(t)
    \/ getRedis_connected(t)
    \/ getRedis_failed(t)
    \/ getCachedProfile_acquired(t)
    \/ getCachedProfile_got(t)
    \/ getCachedProfile_failed(t)
    \/ \E o \in GoodOutcomes : grokSettled(t, o)
    \/ cacheProfile_acquired(t)
    \/ cacheProfile_stored(t)
    \/ cacheProfile_failed(t)
    \/ profileReturned(t)

\* Both connections at work: calls of generateAIProfile in one slot and of
\* trackUniqueVisitor in the other, against a store that comes and goes.
ConnInit == InitWith({TRUE}, {FALSE}, {})
ConnNext ==
    \/ grokProfileStep("t1")
    \/ trackStep("t2", OneCaller)
    \/ cacheLibStep
    \/ trackingLibStep
    \/ storeStep
    \/ Tick(REDIS_BACKOFF_MS)
ConnSpec == ConnInit /\ [][ConnNext]_vars

\* Concurrent calls of trackUniqueVisitor, with their retries, on the
\* tracking connection.
TrackInit == InitWith({FALSE}, {FALSE}, {})
TrackNext ==
    \/ \E t \in Tasks : trackStep(t, OneCaller)
    \/ trackingLibStep
    \/ storeStep
    \/ Tick(RETRY_DELAY_MS)
    \/ Tick(REDIS_BACKOFF_MS)
TrackSpec == TrackInit /\ [][TrackNext]_vars

\* Concurrent calls of trackUniqueVisitor with their retries, the steps of
\* every call remembered.
CloseInit == InitWith({FALSE}, {FALSE}, {"trail"})
CloseNext ==
    \/ \E t \in Tasks : trackStep(t, OneCaller)
    \/ trackingLibStep
    \/ storeStep
    \/ Tick(RETRY_DELAY_MS)
CloseSpec == CloseInit /\ [][CloseNext]_vars

\* One step of a generateAIAuction call in slot t: requests from R, provider
\* outcomes from O.
auctionStep(t, R, O) ==
    \/ \E req \in R : generateAIAuction(t, req)
    \/ getRedis_create(t)
    \/ getRedis_connected(t)
    \/ getRedis_failed(t)
    \/ getAuctionCache_acquired(t)
    \/ getAuctionCache_got(t)
    \/ getAuctionCache_failed(t)
    \/ \E o \in O : auctionGrokSettled(t, o)
    \/ \E o \in O : auctionMimoSettled(t, o)
    \/ setAuctionCache_acquired(t)
    \/ setAuctionCache_stored(t)
    \/ setAuctionCache_failed(t)
    \/ auctionReturned(t)

\* Profile and auction requests in any order, one at a time, against every
\* provider configuration, provider outcome and store behaviour.
PipeInit == InitWith(BOOLEAN, BOOLEAN, {"trail"})
PipeNext ==
    \/ profileStep("t1", OneCaller, ProviderOutcomes)
    \/ auctionStep("t1", AuctionRequests, AuctionOutcomes)
    \/ cacheLibStep
    \/ storeStep
    \/ Tick(REDIS_BACKOFF_MS)
PipeSpec == PipeInit /\ [][PipeNext]_vars

\* Requests of one caller with signals of the device and a geo lookup.
SignalRequests ==
    {[fingerprintId |-> "fpA", crossBrowserId |-> "cb", hasDeveloperFonts |-> d,
      isAutomated |-> a, geoCountry |-> c] :
        d \in BOOLEAN, a \in BOOLEAN, c \in {"", "Canada"}}

\* One step of a generateAIProfile call in slot t when no provider is
\* configured.
coldProfileStep(t) ==
    \/ \E ci \in SignalRequests : generateAIProfile(t, ci)
    \/ getRedis_create(t)
    \/ getRedis_connected(t)
    \/ getRedis_failed(t)
    \/ getCachedProfile_acquired(t)
    \/ getCachedProfile_got(t)
    \/ getCachedProfile_failed(t)
    \/ profileReturned(t)

\* Cold start without provider credentials, with and without REDIS_URL in
\* the environment: concurrent and successive calls at different times,
\* against a store that comes and goes.
ColdInit == InitAt(EnvUrls, {FALSE}, {FALSE}, {"trail"})
ColdNext ==
    \/ \E t \in Tasks : coldProfileStep(t)
    \/ cacheLibStep
    \/ storeStep
    \/ Tick(REDIS_BACKOFF_MS)
ColdSpec == ColdInit /\ [][ColdNext]_vars

\* The cache layer under every failure: profile and auction requests with
\* a provider that answers, a store that fails and recovers at any step and
\* that may hold strings that are not JSON.
CacheKeys == {cacheKeyOf(r) : r \in OneCaller} \cup {auctionKeyOf(r) : r \in AuctionRequests}
GoodAuctions ==
    {[kind |-> "text", text |-> [syntax |-> "json", doc |-> AuctionDoc(JArr(2), JUndef)]]}
CacheInit == InitWith(BOOLEAN, {TRUE}, {"trail"})
CacheNext ==
    \/ profileStep("t1", OneCaller, FewOutcomes)
    \/ auctionStep("t1", AuctionRequests, GoodAuctions)
    \/ cacheLibStep
    \/ storeStep
    \/ \E k \in CacheKeys : storeCorrupted(k)
    \/ Tick(REDIS_BACKOFF_MS)
CacheSpec == CacheInit /\ [][CacheNext]_vars

\* Profile summaries as extractProfileSummary of the client builds them
\* (location first): two visitors of one city, whose summaries agree on
\* their first 24 bytes, and a visitor of another city.
S1 == Summary("Location: Toronto, Canad", "a (CA)|Device: MacIntel|Likely Developer: Yes")
S2 == Summary("Location: Toronto, Canad", "a (CA)|Device: Win32|Likely Gamer: Yes")
S3 == Summary("Location: Vancouver, Can", "ada (CA)|Device: MacIntel")
AuctionRequest(x, country, code) ==
    [profileSummary |-> x, country |-> country, countryCode |-> code]
\* One step of a profile or an auction call in slot t with the primary
\* provider answering and the store at work.
profileKeyStep(t, R) ==
    \/ \E ci \in R : generateAIProfile(t, ci)
    \/ getRedis_create(t)
    \/ getRedis_connected(t)
    \/ getCachedProfile_acquired(t)
    \/ getCachedProfile_got(t)
    \/ \E o \in GoodOutcomes : grokSettled(t, o)
    \/ cacheProfile_acquired(t)
    \/ cacheProfile_stored(t)
    \/ profileReturned(t)
auctionKeyStep(t, A) ==
    \/ \E req \in A : generateAIAuction(t, req)
    \/ getRedis_create(t)
    \/ getRedis_connected(t)
    \/ getAuctionCache_acquired(t)
    \/ getAuctionCache_got(t)
    \/ \E o \in GoodAuctions : auctionGrokSettled(t, o)
    \/ setAuctionCache_acquired(t)
    \/ setAuctionCache_stored(t)
    \/ auctionReturned(t)

\* Profile calls in one slot and auction calls in the other, on a store
\* that works.
KeyRequests ==
    {[fingerprintId |-> "fpA", crossBrowserId |-> "cb"],
     [fingerprintId |-> "fpA", crossBrowserId |-> "cb", devToolsOpen |-> TRUE],
     [fingerprintId |-> "fpB", crossBrowserId |-> "cb"],
     [fingerprintId |-> profileHash(S1), crossBrowserId |-> "CA"]}
KeyAuctionRequests ==
    {AuctionRequest(S1, "Canada", "CA"), AuctionRequest(S1, "Kanada", "CA"),
     AuctionRequest(S3, "Canada", "CA")}
KeyInit == InitWith({TRUE}, {FALSE}, {"trail"}) /\ storeUp
KeyNext ==
    \/ profileKeyStep("t1", KeyRequests)
    \/ auctionKeyStep("t2", KeyAuctionRequests)
KeySpec == KeyInit /\ [][KeyNext]_vars

\* Profile calls of different identity pairs in both slots.
IdentityRequests ==
    [t1 |-> {[fingerprintId |-> "fpA", crossBrowserId |-> "x:cb"],
             [fingerprintId |-> "", crossBrowserId |-> "cb"],
             [fingerprintId |-> "fpA", crossBrowserId |-> "cb"]},
     t2 |-> {[fingerprintId |-> "fpA:x", crossBrowserId |-> "cb"],
             [fingerprintId |-> "unknown", crossBrowserId |-> "cb"],
             [fingerprintId |-> "fpB", crossBrowserId |-> "cb"]}]
IdentityInit == InitWith({TRUE}, {FALSE}, {"trail"}) /\ storeUp
IdentityNext == \E t \in Tasks : profileKeyStep(t, IdentityRequests[t])
IdentitySpec == IdentityInit /\ [][IdentityNext]_vars

\* Auction calls of different inputs in both slots.
SlotRequests ==
    [t1 |-> {AuctionRequest(S1, "Canada", "CA"), AuctionRequest(S3, "Canada", "CA")},
     t2 |-> {AuctionRequest(S2, "Canada", "CA"),
             AuctionRequest(S1, "United States", "US")}]
SlotInit == InitWith({TRUE}, {FALSE}, {"trail"}) /\ storeUp
SlotNext == \E t \in Tasks : auctionKeyStep(t, SlotRequests[t])
SlotSpec == SlotInit /\ [][SlotNext]_vars

\* One step of a getTotalUniqueVisitors call in slot t.
countStep(t) ==
    \/ getTotalUniqueVisitors(t)
    \/ getTrackingRedis_create(t)
    \/ getTrackingRedis_connected(t)
    \/ getTrackingRedis_failed(t)
    \/ getTotalUniqueVisitors_acquired(t)
    \/ getTotalUniqueVisitors_retry(t)
    \/ getTotalUniqueVisitors_counted(t)
    \/ getTotalUniqueVisitors_failed(t)
    \/ totalReturned(t)

\* Repeated and concurrent visits of the same and of another visitor, and
\* the visitor count read in between.
VisitInit == InitWith({FALSE}, {FALSE}, {"firsts"})
VisitNext ==
    \/ trackStep("t1", Requests)
    \/ trackStep("t2", OneCaller)
    \/ countStep("t2")
    \/ storeStep
    \/ \E t \in Tasks : storeFails_afterSAdd(t)
    \/ Tick(REDIS_BACKOFF_MS)
VisitSpec == VisitInit /\ [][VisitNext]_vars

\* One call of trackUniqueVisitor or of getTotalUniqueVisitors at a time,
\* with its retry timers firing when they are due or later, against a
\* store that comes and goes.
RetryInit == InitWith({FALSE}, {FALSE}, {"trail", "health"})
RetryNext ==
    \/ trackStep("t1", OneCaller)
    \/ countStep("t1")
    \/ trackingLibStep
    \/ storeStep
    \/ \E a \in 1 .. (maxRetries - 1) : Tick(RETRY_DELAY_MS * a)
    \/ Tick(REDIS_BACKOFF_MS)
RetrySpec == RetryInit /\ [][RetryNext]_vars

\* Provider answers for the validation of parseAIResponse: next to
\* ProviderTexts, documents with only one of the two required fields and
\* documents whose optional scores are booleans or numbers out of range.
ParseTexts ==
    ProviderTexts \cup
    { JsonText(Doc(JBool(TRUE), JUndef, JNum(10), JNum(90))),
      JsonText(Doc(JNull, JNum(50), JUndef, JUndef)),
      JsonText(Doc(JBool(TRUE), JNum(50), JBool(TRUE), JNum(-1))) }
ParseOutcomes ==
    {[kind |-> k, text |-> GarbageText] : k \in {"throw", "http", "empty"}}
        \cup {[kind |-> "text", text |-> x] : x \in ParseTexts}

\* One call at a time through the provider chain, every answer of a
\* provider remembered next to what the chain made of it.
ParseInit == InitWith(BOOLEAN, BOOLEAN, {"trail", "answer"})
ParseNext ==
    \/ profileStep("t1", OneCaller, ParseOutcomes)
    \/ cacheLibStep
    \/ storeStep
    \/ Tick(REDIS_BACKOFF_MS)
ParseSpec == ParseInit /\ [][ParseNext]_vars

\* One call at a time through the provider chain, with providers that may
\* never answer. The code's own steps are fair: the event loop runs every
\* continuation whose promise has settled, and the store and a provider
\* that answers do so in finite time.
liveCodeStep(t) ==
    \/ getRedis_create(t)
    \/ getRedis_connected(t)
    \/ getRedis_failed(t)
    \/ getCachedProfile_acquired(t)
    \/ getCachedProfile_got(t)
    \/ \E o \in ProviderOutcomes : grokSettled(t, o)
    \/ \E o \in ProviderOutcomes : mimoSettled(t, o)
    \/ cacheProfile_acquired(t)
    \/ cacheProfile_stored(t)
    \/ profileReturned(t)
LiveInit == InitWith(BOOLEAN, BOOLEAN, {"trail"})
LiveNext ==
    \/ \E ci \in OneCaller : generateAIProfile("t1", ci)
    \/ liveCodeStep("t1")
    \/ providerHangs("t1")
    \/ Tick(RATE_LIMIT_WINDOW)
LiveSpec == LiveInit /\ [][LiveNext]_vars /\ WF_vars(liveCodeStep("t1"))

(* ------------------------------------------------------------------ *)
(* Properties                                                           *)
(* ------------------------------------------------------------------ *)
\* C1 (always a result): whatever the provider configuration, the provider
\* outcomes and the behaviour of the store, a call of generateAIProfile that
\* has completed holds a non-null profile and a source tag in
\* {cache, ai, fallback}.
C1_AlwaysAResult ==
    \A t \in Tasks :
        pc[t] = "done" =>
            /\ ret[t].profile # NoProfile
            /\ ret[t].source \in {"cache", "ai", "fallback"}

\* C1, its hardest case: both providers configured and failing, the store
\* lost while the lookup was pending; the call has completed.
C1_Witness ==
    /\ pc["t1"] = "done"
    /\ GROK_API_KEY /\ OPENROUTER_API_KEY /\ ~storeUp
    /\ InTrail("t1", "cache:error")
    /\ InTrail("t1", "grok:fail") /\ InTrail("t1", "mimo:fail")
    /\ ret["t1"].source = "fallback"

\* C2 as stated (every provider call is bounded): a call that waits for a
\* provider eventually returns a result, whatever the provider does.
C2_AsStated ==
    (pc["t1"] \in {"grok_wait", "mimo_wait", "grok_hung", "mimo_hung"})
        ~> (pc["t1"] = "done")

\* What reading back a stored profile yields: the payload with every NaN
\* score replaced by null.
C3_readBack(p) == [f \in DOMAIN p |-> IF p[f].t = "NaN" THEN JNull ELSE p[f]]

\* The previous completed call with the key of the call in slot t.
C3_first(t) == prev[cacheKeyOf(clientInfo[t])]
C3_second(t) == pc[t] = "done" /\ cacheKeyOf(clientInfo[t]) \in DOMAIN prev

\* C3 as stated (cache idempotence): the second of two successive calls with
\* the same key returns source "cache" and the payload of the first.
C3_AsStated ==
    \A t \in Tasks :
        C3_second(t) =>
            /\ ret[t].source = "cache"
            /\ ret[t].profile = C3_first(t).profile

\* C3, amended: when the first call returned a cached payload, or an AI
\* payload that its write-through stored, and the lookup of the second call
\* reached the store, the second call returns source "cache" and the payload
\* of the first as JSON reads it back (a NaN score comes back as null).
C3_CacheIdempotence ==
    \A t \in Tasks :
        ( /\ C3_second(t)
          /\ \/ C3_first(t).source = "cache"
             \/ C3_first(t).source = "ai" /\ C3_first(t).stored
          /\ InTrail(t, "cache:hit") \/ InTrail(t, "cache:miss") )
        => /\ ret[t].source = "cache"
           /\ ret[t].profile = C3_readBack(C3_first(t).profile)

\* C3, its case: the first call returned an AI payload with a NaN score and
\* stored it; the second call has returned from the cache.
C3_Witness ==
    /\ C3_second("t1")
    /\ C3_first("t1").source = "ai" /\ C3_first("t1").stored
    /\ C3_first("t1").profile.gamerScore.t = "NaN"
    /\ ret["t1"].source = "cache"

\* The step in which the call in slot t goes through the rate gate (line
\* 785), the caller's window as the gate finds it, and the gate's verdict.
gateStep(t) ==
    /\ pc[t] \in {"getRedis_ret", "get_wait"}
    /\ \/ pc'[t] \in {"grok_wait", "mimo_wait"}
       \/ pc'[t] = "done" /\ ret'[t].error = "Rate limited"
windowOf(t) == userRateLimits[rateKeyOf(clientInfo[t])]
windowOver(t) ==
    \/ rateKeyOf(clientInfo[t]) \notin DOMAIN userRateLimits
    \/ now > windowOf(t).resetTime
windowFull(t) == ~windowOver(t) /\ windowOf(t).count >= RATE_LIMIT_MAX
routedToFallback(t) ==
    /\ pc'[t] = "done"
    /\ ret'[t].source = "fallback"
    /\ ret'[t].profile = generateFallbackProfile(clientInfo[t])

\* C4 as stated (rate-limit boundary): a call that is the third or a later
\* one of its caller inside one window returns source "fallback".
C4_AsStated ==
    \A t \in Tasks :
        pc[t] = "done" /\ nth[t] > RATE_LIMIT_MAX => ret[t].source = "fallback"

\* C4, amended: a call that misses the cache and reaches the rate gate when
\* its caller's window holds RATE_LIMIT_MAX calls and now <= resetTime is
\* routed to the deterministic fallback, whatever the providers would
\* answer; a call that reaches the gate when now > resetTime is not
\* rate-limited and goes on to a provider.
C4_RateLimitBoundary ==
    [][\A t \in Tasks :
          gateStep(t) =>
              /\ windowFull(t) => routedToFallback(t)
              /\ windowOver(t) => pc'[t] \in {"grok_wait", "mimo_wait"}]_vars

\* C4, its case: both providers configured; the caller's first window has
\* passed, and in the next one a call has been refused by the gate.
C4_Witness ==
    \E t \in Tasks :
        /\ pc[t] = "done" /\ ret[t].error = "Rate limited"
        /\ GROK_API_KEY /\ OPENROUTER_API_KEY
        /\ windowOf(t).resetTime > StartTime + RATE_LIMIT_WINDOW

\* C5 (per-caller budget): under any interleaving at most RATE_LIMIT_MAX
\* requests of one caller inside one window reach a provider, and a request
\* that comes to the gate beyond that is answered in the same step with the
\* deterministic fallback: no provider call, no wait, no error.
C5_Budget == \A u \in DOMAIN ghostWindow : ghostWindow[u].count <= RATE_LIMIT_MAX
C5_PerCallerBudget ==
    /\ []C5_Budget
    /\ [][\A t \in Tasks :
             gateStep(t) /\ windowFull(t) =>
                 /\ routedToFallback(t)
                 /\ ret'[t].profile # NoProfile
                 /\ ghostWindow' = ghostWindow]_vars

\* C5, its case: one request of the caller is still waiting for a provider,
\* a second has reached one too, and a further one has been refused.
C5_Witness ==
    \E t, u \in Tasks :
        /\ pc[t] \in {"grok_wait", "mimo_wait"}
        /\ pc[u] = "done" /\ ret[u].error = "Rate limited"
        /\ ghostWindow[rateKeyOf(clientInfo[u])].count = RATE_LIMIT_MAX

\* C6 (window invariant): every window has 1 <= count <= RATE_LIMIT_MAX;
\* checkRateLimit replaces the window by (1, now + RATE_LIMIT_WINDOW) exactly
\* when there is none or now > resetTime, otherwise adds one to count when
\* it allows the call and leaves the window alone when it refuses; no other
\* step changes a window that stays in the map.
C6_CountInRange ==
    \A u \in DOMAIN userRateLimits :
        1 <= userRateLimits[u].count /\ userRateLimits[u].count <= RATE_LIMIT_MAX
C6_gateEffect(t) ==
    LET u == rateKeyOf(clientInfo[t]) IN
    /\ windowOver(t) =>
           userRateLimits'[u] = [count |-> 1, resetTime |-> now + RATE_LIMIT_WINDOW]
    /\ ~windowOver(t) /\ ~windowFull(t) =>
           /\ pc'[t] \in {"grok_wait", "mimo_wait"}
           /\ userRateLimits'[u] = [count |-> windowOf(t).count + 1,
                                     resetTime |-> windowOf(t).resetTime]
    /\ windowFull(t) => userRateLimits' = userRateLimits
C6_WindowInvariant ==
    /\ []C6_CountInRange
    /\ [][/\ \A t \in Tasks : gateStep(t) => C6_gateEffect(t)
          /\ (\A t \in Tasks : ~gateStep(t)) =>
                 /\ DOMAIN userRateLimits' \subseteq DOMAIN userRateLimits
                 /\ \A u \in DOMAIN userRateLimits' :
                        userRateLimits'[u] = userRateLimits[u]]_vars

\* C6, its case: a window that replaced an expired one and was then
\* incremented to the maximum.
C6_Witness ==
    \E u \in DOMAIN userRateLimits :
        /\ userRateLimits[u].count = RATE_LIMIT_MAX
        /\ userRateLimits[u].resetTime > StartTime + RATE_LIMIT_WINDOW

\* The step in which the call in slot t enters getRedis (lines 64-74) or
\* getTrackingRedis (lines 97-106).
acquiresCache(t) ==
    /\ pc[t] \in {"idle", "grok_wait", "mimo_wait"}
    /\ pc'[t] \in {"getRedis_ret", "getRedis_create"}
acquiresTracking(t) ==
    /\ pc[t] \in {"idle", "sleep"}
    /\ pc'[t] \in {"getTrackingRedis_ret", "getTrackingRedis_create"}
cacheCooldown == redisLastError > 0 /\ now - redisLastError < REDIS_BACKOFF_MS
trackingCooldown ==
    trackingRedisLastError > 0 /\ now - trackingRedisLastError < REDIS_BACKOFF_MS

\* C7 (cooldown short-circuit): a call of getRedis or getTrackingRedis made
\* while the connection's error timestamp is set and less than
\* REDIS_BACKOFF_MS old returns null at once and starts no connection
\* attempt: no client is created or connected, the connecting flag stays.
C7_CooldownShortCircuit ==
    [][\A t \in Tasks :
          /\ acquiresCache(t) /\ cacheCooldown =>
                 /\ pc'[t] = "getRedis_ret" /\ client'[t] = Null
                 /\ connVars' = connVars
          /\ acquiresTracking(t) /\ trackingCooldown =>
                 /\ pc'[t] = "getTrackingRedis_ret" /\ client'[t] = Null
                 /\ trackConnVars' = trackConnVars]_vars

\* C7, its case: both connections hold an open client and an error
\* timestamp inside the window, and both acquires have returned null.
C7_Witness ==
    /\ pc["t1"] = "getRedis_ret" /\ client["t1"] = Null
    /\ redis # Null /\ isOpen(cacheClients[redis]) /\ cacheCooldown
    /\ pc["t2"] = "getTrackingRedis_ret" /\ client["t2"] = Null
    /\ trackingRedis # Null /\ isOpen(trackingClients[trackingRedis])
    /\ trackingCooldown
    /\ ticks >= 1

\* C8 as stated (one attempt in flight): in every state at most one call
\* per connection is establishing a connection, and a call of
\* getTrackingRedis made while an attempt is in flight returns null.
C8_inFlight ==
    {t \in Tasks : pc[t] \in {"getTrackingRedis_create", "getTrackingRedis_connect"}}
C8_AsStated ==
    /\ [](Cardinality(C8_inFlight) <= 1)
    /\ [][\A t \in Tasks :
             acquiresTracking(t) /\ C8_inFlight # {} =>
                 pc'[t] = "getTrackingRedis_ret" /\ client'[t] = Null]_vars

\* The step in which a command of the call in slot t is rejected.
commandFails(t) ==
    \/ pc[t] \in {"get_wait", "setEx_wait"} /\ pc'[t] # pc[t]
           /\ (~storeUp \/ cacheClients[client[t]] = "closed")
    \/ pc[t] = "sAdd_wait" /\ pc'[t] # pc[t]
           /\ (~storeUp \/ trackingClients[client[t]] = "closed")

\* C9 as stated (any runtime error starts the cooldown): after a step in
\* which get, setEx or sAdd is rejected, the connection's error timestamp is
\* set and inside the backoff window.
C9_AsStated ==
    [][\A t \in Tasks :
          commandFails(t) =>
              IF pc[t] = "sAdd_wait"
              THEN trackingRedisLastError' > 0
                       /\ now' - trackingRedisLastError' < REDIS_BACKOFF_MS
              ELSE redisLastError' > 0
                       /\ now' - redisLastError' < REDIS_BACKOFF_MS]_vars

\* C9, amended: the error timestamp of a connection is recorded (as now) by
\* the step in which its client emits 'error' or its connect() is rejected:
\* an established client losing its socket, a client giving up. A rejected
\* get or setEx by itself changes nothing of the cache connection's state;
\* a rejected sAdd makes trackUniqueVisitor close the tracking client (and
\* then drop it) without recording a timestamp.
C9_ErrorsAndCooldown ==
    [][/\ \A h \in Handles :
              cacheClients'[h] # cacheClients[h]
                  /\ cacheClients'[h] \in {"reconnecting", "closed"}
              => redisLastError' = now
       /\ \A h \in Handles :
              trackingClients'[h] # trackingClients[h]
                  /\ \/ trackingClients'[h] = "reconnecting"
                     \/ trackingClients'[h] = "closed"
                            /\ \A t \in Tasks : ~commandFails(t)
              => trackingRedisLastError' = now
       /\ \A t \in Tasks :
              commandFails(t) =>
                  /\ connVars' = connVars
                  /\ trackingRedisLastError' = trackingRedisLastError
                  /\ trackingRedisConnecting' = trackingRedisConnecting
                  /\ trackingRedis' = trackingRedis]_vars

\* C9, its case: setEx was rejected on a client acquire had returned ready;
\* the call has completed and the cache connection has no error timestamp.
C9_Witness ==
    /\ pc["t1"] = "done" /\ ret["t1"].source = "ai"
    /\ DOMAIN cacheStore = {} /\ ~storeUp
    /\ redis # Null /\ cacheClients[redis] = "ready"
    /\ redisLastError = 0

\* C10 (isolation): no step changes the state of both connections; whatever
\* changes the handle, the connecting flag, the error timestamp or a client
\* of one connection leaves those of the other as they were.
C10_Isolation ==
    [][connVars' = connVars \/ trackConnVars' = trackConnVars]_vars

\* C10, its case: the cache connection failed to connect and is in its
\* cooldown; the tracking connection is ready, without error timestamp,
\* and has recorded a visitor.
C10_Witness ==
    /\ redis = Null /\ cacheCooldown
    /\ trackingRedis # Null /\ trackingClients[trackingRedis] = "ready"
    /\ trackingRedisLastError = 0
    /\ visitorSet # {}

\* How many calls have returned true for visitor k, and the step in which
\* the trackUniqueVisitor call in slot t returns.
firstsOf(k) == IF k \in DOMAIN firsts THEN firsts[k] ELSE 0
trackReturns(t) == pc[t] \in TrackPcs /\ pc[t] # "track_done" /\ pc'[t] = "track_done"

\* C12 as stated (visitor idempotence): once a call of trackUniqueVisitor
\* for a visitor id has completed, exactly one call for that id has
\* returned true.
C12_AsStated ==
    \A t \in Tasks :
        pc[t] = "track_done" => firstsOf(visitorKeyOf(clientInfo[t])) = 1

\* C12, amended: for every visitor id at most one call returns true, and it
\* is the call whose sAdd put the id into the set; the set (what sCard
\* counts) holds every id for which a call has returned true; the step in
\* which a call returns true adds its id and makes the count grow by one,
\* the step in which a call returns false leaves the set as it was; the
\* only other change of the set is the insert of a pending sAdd whose reply
\* is lost (no call returns true for that id, then or later); a call that
\* exhausts its attempts returns false.
replyLost(t) ==
    /\ pc[t] = "sAdd_wait" /\ pc'[t] = "sAdd_wait" /\ storeUp /\ ~storeUp'
    /\ visitorSet' = visitorSet \cup {visitorKeyOf(clientInfo[t])}
C12_Counted ==
    /\ \A k \in DOMAIN firsts : firsts[k] <= 1
    /\ {k \in DOMAIN firsts : firsts[k] = 1} \subseteq visitorSet
C12_VisitorIdempotence ==
    /\ []C12_Counted
    /\ [][/\ \A t \in Tasks :
                trackReturns(t) =>
                    LET k == visitorKeyOf(clientInfo[t]) IN
                    IF ret'[t].isNew
                    THEN /\ k \notin visitorSet
                         /\ visitorSet' = visitorSet \cup {k}
                         /\ sCard(visitorSet') = sCard(visitorSet) + 1
                    ELSE visitorSet' = visitorSet
          /\ (\A t \in Tasks : ~trackReturns(t) /\ ~replyLost(t))
                => visitorSet' = visitorSet
          /\ \A t \in Tasks :
                pc'[t] = "count_done" /\ pc[t] = "sCard_wait" /\ storeUp
                    /\ trackingClients[client[t]] = "ready"
                => ret'[t].count = sCard(visitorSet)]_vars

\* C12, its case: a repeated call for a counted visitor has returned false,
\* a second visitor has been counted, and the count has been read as 2.
C12_Witness ==
    /\ pc["t1"] = "track_done" /\ ~ret["t1"].isNew
    /\ firstsOf(visitorKeyOf(clientInfo["t1"])) = 1
    /\ Cardinality(visitorSet) = 2
    /\ pc["t2"] = "count_done" /\ ret["t2"].count = 2

\* The positions of `tag` in the history of the call in slot t.
tagAt(t, tag) == {i \in DOMAIN trail[t] : trail[t][i] = tag}

\* The call in slot t saw connect() rejected once, the store healthy right
\* after it and at every later step, and no other failure of the store.
flappedOnce(t) ==
    /\ Cardinality(tagAt(t, "connect:rejected")) = 1
    /\ tagAt(t, "sAdd:rejected") = {}
    /\ \A i \in tagAt(t, "connect:rejected") :
          /\ i < Len(trail[t]) /\ trail[t][i + 1] = "store:up"
          /\ \A j \in tagAt(t, "store:down") : j < i

\* The visitor of the call in slot t had not been counted before the call.
firstSeen(t) == visitorKeyOf(clientInfo[t]) \notin visitorSet \/ ret[t].isNew

\* C13 as stated (store flaps): a trackUniqueVisitor call for a first-seen
\* id during which the tracking connection failed once, the store being
\* healthy from then on, returns true within maxRetries attempts.
C13_AsStated ==
    \A t \in Tasks :
        pc[t] = "track_done" /\ flappedOnce(t) /\ firstSeen(t) =>
            ret[t].isNew /\ attempt[t] <= maxRetries

\* The step in which an attempt of the trackUniqueVisitor call in slot t
\* ends in failure: acquire returned null, or sAdd was rejected and the
\* catch has run to its end.
attemptFails(t) ==
    \/ pc[t] = "getTrackingRedis_ret" /\ clientInfo[t] # NoArgs /\ client[t] = Null
           /\ pc'[t] # pc[t]
    \/ pc[t] = "sAdd_wait" /\ pc'[t] \notin {"sAdd_wait", "disconnect_wait", "track_done"}
    \/ pc[t] = "sAdd_wait" /\ pc'[t] = "track_done" /\ trackingRedis = Null
    \/ pc[t] = "disconnect_wait" /\ pc'[t] # pc[t]

\* C14 (bounded retries): trackUniqueVisitor makes at most maxRetries (3)
\* attempts; an attempt that fails, by acquire returning null or by sAdd
\* being rejected, is followed by a sleep of RETRY_DELAY_MS * attempt ms and
\* the next attempt when it was not the last, and by the return of false
\* when it was; the call returns a boolean, never an error.
C14_AttemptsInRange ==
    \A t \in Tasks :
        /\ attempt[t] <= maxRetries
        /\ pc[t] = "track_done" => DOMAIN ret[t] = {"isNew"} /\ ret[t].isNew \in BOOLEAN
C14_BoundedRetries ==
    /\ []C14_AttemptsInRange
    /\ [][\A t \in Tasks :
             /\ attemptFails(t) /\ attempt[t] < maxRetries =>
                    /\ pc'[t] = "sleep"
                    /\ wake'[t] = now + RETRY_DELAY_MS * attempt[t]
                    /\ attempt'[t] = attempt[t]
             /\ attemptFails(t) /\ attempt[t] >= maxRetries =>
                    pc'[t] = "track_done" /\ ret'[t] = [isNew |-> FALSE]
             /\ pc[t] = "sleep" /\ pc'[t] # "sleep" =>
                    /\ now >= wake[t]
                    /\ attempt'[t] = attempt[t] + 1
                    /\ pc'[t] \in {"getTrackingRedis_ret", "getTrackingRedis_create"}]_vars

\* C14, its case: the three attempts of a call have failed, one by a
\* rejected sAdd and one by acquire returning null, the sleeps of 100 and
\* 200 ms have passed, and the call has returned false.
C14_Witness ==
    /\ pc["t1"] = "track_done" /\ ~ret["t1"].isNew
    /\ attempt["t1"] = maxRetries
    /\ InTrail("t1", "sAdd:rejected") /\ InTrail("t1", "acquire:unavailable")
    /\ now = StartTime + RETRY_DELAY_MS + RETRY_DELAY_MS * 2

\* The slot t holds a getTotalUniqueVisitors call; the step in which one of
\* its attempts ends in failure.
countCall(t) == pc[t] # "idle" /\ clientInfo[t] = NoArgs
countAttemptFails(t) ==
    /\ countCall(t)
    /\ \/ pc[t] = "getTrackingRedis_ret" /\ client[t] = Null /\ pc'[t] # pc[t]
       \/ pc[t] = "sCard_wait" /\ pc'[t] # pc[t]
              /\ (~storeUp \/ trackingClients[client[t]] = "closed")

\* C15 (visitor count): getTotalUniqueVisitors makes at most 2 attempts;
\* when an attempt fails, by acquire returning null or by sCard being
\* rejected, it sleeps and tries again if that was the first attempt and
\* returns 0 if it was the second; when sCard answers it returns the
\* cardinality of the visitor set; it never returns an error.
C15_CountInRange ==
    \A t \in Tasks :
        /\ countCall(t) => attempt[t] <= getTotalUniqueVisitors_maxRetries
        /\ pc[t] = "count_done" => ret[t].error = "" /\ ret[t].count \in Nat
C15_VisitorCount ==
    /\ []C15_CountInRange
    /\ [][\A t \in Tasks :
             /\ countAttemptFails(t) /\ attempt[t] < getTotalUniqueVisitors_maxRetries =>
                    pc'[t] = "count_sleep" /\ attempt'[t] = attempt[t]
             /\ countAttemptFails(t) /\ attempt[t] >= getTotalUniqueVisitors_maxRetries =>
                    pc'[t] = "count_done" /\ ret'[t].count = 0
             /\ pc[t] = "sCard_wait" /\ pc'[t] # pc[t] /\ ~countAttemptFails(t) =>
                    /\ pc'[t] = "count_done"
                    /\ ret'[t].count = Cardinality(visitorSet)]_vars

\* C15, its case: a visitor is in the set; of a later call the first
\* attempt found the connection unavailable and the second had its sCard
\* rejected; the call has returned 0.
C15_Witness ==
    /\ pc["t1"] = "count_done" /\ ret["t1"].count = 0
    /\ visitorSet # {}
    /\ attempt["t1"] = getTotalUniqueVisitors_maxRetries
    /\ trail["t1"][1] = "acquire:unavailable"
    /\ InTrail("t1", "sCard:rejected")

\* The entries of the store under profile keys and under auction keys.
profileKeys == {k \in DOMAIN cacheStore : \E r \in Requests : k = cacheKeyOf(r)}
auctionKeys == {k \in DOMAIN cacheStore : \E r \in AuctionRequests : k = auctionKeyOf(r)}
\* The call in slot t has gone into a cache write.
wroteThrough(t) ==
    InTrail(t, "put:ok") \/ InTrail(t, "put:error") \/ InTrail(t, "put:unavailable")

\* C11 (the fallback is never cached): every entry of the cache store is a
\* provider's payload (a profile marked aiGenerated with aiSource grok or
\* mimo, an auction with source grok or mimo); the store changes only in
\* the step in which a call that returns source "ai" (profile) or "grok" /
\* "mimo" (auction) has its setEx resolved, and the entry is that call's
\* payload; a call that returns source "fallback" has made no cache write.
C11_StoreHoldsProviderResults ==
    /\ DOMAIN cacheStore = profileKeys \cup auctionKeys
    /\ \A k \in profileKeys :
          /\ JSONparse(cacheStore[k].value).aiGenerated = JBool(TRUE)
          /\ JSONparse(cacheStore[k].value).aiSource \in {JStr("grok"), JStr("mimo")}
    /\ \A k \in auctionKeys :
          JSONparse(cacheStore[k].value).source \in {JStr("grok"), JStr("mimo")}
    /\ \A t \in Tasks :
          /\ pc[t] = "done" /\ ret[t].source = "fallback" => ~wroteThrough(t)
          /\ pc[t] = "auction_done" /\ ret[t].source = JStr("fallback") => ~wroteThrough(t)
C11_FallbackNeverCached ==
    /\ []C11_StoreHoldsProviderResults
    /\ [][cacheStore' # cacheStore =>
             \E t \in Tasks :
                 \/ /\ pc[t] = "setEx_wait" /\ pc'[t] = "done"
                    /\ ret'[t].source = "ai"
                    /\ cacheStore' = (cacheKeyOf(clientInfo[t]) :>
                                         [value |-> JSONstringify(ret'[t].profile),
                                          ttl |-> CACHE_TTL]) @@ cacheStore
                 \/ /\ pc[t] = "auction_setEx_wait" /\ pc'[t] = "auction_done"
                    /\ ret'[t].source \in {JStr("grok"), JStr("mimo")}
                    /\ cacheStore' = (auctionKeyOf(clientInfo[t]) :>
                                         [value |-> JSONstringify(ret'[t]),
                                          ttl |-> AUCTION_CACHE_TTL]) @@ cacheStore]_vars

\* C11, its case: an auction result is in the store; a profile request has
\* missed the cache on a healthy store, its provider has failed, and it has
\* returned the fallback; the store has no entry under its key.
C11_Witness ==
    /\ pc["t1"] = "done" /\ ret["t1"].source = "fallback"
    /\ InTrail("t1", "cache:miss") /\ InTrail("t1", "grok:fail")
    /\ storeUp
    /\ auctionKeys # {}
    /\ cacheKeyOf(clientInfo["t1"]) \notin DOMAIN cacheStore

\* The call in slot t is waiting for the answer of a remote provider.
atProvider(t) ==
    pc[t] \in {"grok_wait", "mimo_wait", "auction_grok_wait", "auction_mimo_wait"}
missedCache(t) ==
    InTrail(t, "cache:miss") \/ InTrail(t, "cache:unavailable") \/ InTrail(t, "cache:error")

\* C16 as stated (providers behind the gates): a call, of the profile path
\* or of the auction path, that has invoked a remote provider has missed
\* the cache and has then passed the rate limiter.
C16_AsStated ==
    \A t \in Tasks :
        atProvider(t) => missedCache(t) /\ InTrail(t, "rate:pass")

\* The profiles a well-formed answer of the secondary provider is
\* normalized into.
mimoProfiles == {providerProfile(o, "mimo") : o \in ProviderOutcomes} \ {NoProfile}
\* The call in slot t is between the provider's answer and its return.
writingThrough(t) ==
    pc[t] \in {"getRedis_ret", "getRedis_create", "getRedis_connect", "setEx_wait"}
        /\ profile[t] # NoProfile

\* C19 (primary down, secondary up): when the primary provider's call has
\* failed and the secondary answers with a well-formed response, the call
\* takes the normalized secondary profile (marked aiSource mimo), passes it
\* unchanged to cacheProfile under the request's key and returns it with
\* source "ai"; when the setEx of that write resolves, the store holds that
\* payload under the key.
C19_Served ==
    \A t \in Tasks :
        pc[t] = "done" /\ InTrail(t, "grok:fail") /\ InTrail(t, "mimo:ok") =>
            /\ ret[t].source = "ai"
            /\ ret[t].profile \in mimoProfiles
            /\ ret[t].profile.aiSource = JStr("mimo")
            /\ wroteThrough(t)
            /\ InTrail(t, "put:ok") =>
                   /\ cacheKeyOf(clientInfo[t]) \in DOMAIN cacheStore
                   /\ cacheStore[cacheKeyOf(clientInfo[t])].value
                          = JSONstringify(ret[t].profile)
C19_SecondaryServes ==
    /\ []C19_Served
    /\ [][\A t \in Tasks :
             /\ pc[t] = "mimo_wait" /\ profile'[t] # NoProfile =>
                    /\ profile'[t] \in mimoProfiles
                    /\ writingThrough(t)'
             /\ pc[t] = "mimo_wait" /\ pc'[t] = "done" =>
                    ret'[t].source = "fallback"
             /\ writingThrough(t) =>
                    /\ profile'[t] = profile[t]
                    /\ pc'[t] = "done" => ret'[t] = aiRet(t)]_vars

\* C19, its case: a cache miss on a healthy store, the primary's call
\* failed, the secondary's profile returned with source "ai" and stored.
C19_Witness ==
    /\ pc["t1"] = "done" /\ ret["t1"].source = "ai"
    /\ InTrail("t1", "cache:miss") /\ InTrail("t1", "rate:pass")
    /\ InTrail("t1", "grok:fail") /\ InTrail("t1", "mimo:ok") /\ InTrail("t1", "put:ok")
    /\ cacheStore[cacheKeyOf(clientInfo["t1"])].value = JSONstringify(ret["t1"].profile)

\* The key of the call in slot t, and the steps in which its cache lookup
\* and its cache write fail: acquire returned null, the command was
\* rejected, or (lookup) JSON.parse rejected the stored string.
keyOfCall(t) ==
    IF isAuction(t) THEN auctionKeyOf(clientInfo[t]) ELSE cacheKeyOf(clientInfo[t])
lookupFails(t) ==
    \/ pc[t] = "getRedis_ret" /\ profile[t] = NoProfile /\ client[t] = Null
           /\ pc'[t] # pc[t]
    \/ pc[t] \in {"get_wait", "auction_get_wait"} /\ pc'[t] # pc[t]
           /\ \/ ~storeUp
              \/ cacheClients[client[t]] = "closed"
              \/ /\ keyOfCall(t) \in DOMAIN cacheStore
                 /\ ~JSONparses(cacheStore[keyOfCall(t)].value)
writeFails(t) ==
    \/ pc[t] = "getRedis_ret" /\ profile[t] # NoProfile /\ client[t] = Null
           /\ pc'[t] # pc[t]
    \/ pc[t] \in {"setEx_wait", "auction_setEx_wait"} /\ pc'[t] # pc[t]
           /\ (~storeUp \/ cacheClients[client[t]] = "closed")
\* The call in slot t goes on as after a miss: to a provider, or to its
\* return of the fallback.
goesOnAsMiss(t) ==
    \/ pc'[t] \in {"grok_wait", "mimo_wait", "auction_grok_wait", "auction_mimo_wait"}
    \/ pc'[t] = "done" /\ ret'[t].source = "fallback"
           /\ ret'[t].profile = generateFallbackProfile(clientInfo[t])
    \/ pc'[t] = "auction_done" /\ ret'[t] = auctionFallback

\* C20 (the cache layer never fails outward): a lookup that finds the
\* connection unavailable, has its get rejected or reads a string that is
\* not JSON is a miss: the call goes on to the gates and providers and
\* the store is left alone; a write that finds the connection unavailable
\* or has its setEx rejected changes nothing in the store, and the call
\* returns the provider's result exactly as after a successful write; no
\* completed call holds an error instead of a result.
C20_NoErrorResult ==
    \A t \in Tasks :
        /\ pc[t] = "done" =>
               ret[t].profile # NoProfile /\ ret[t].source \in {"cache", "ai", "fallback"}
        /\ pc[t] = "auction_done" =>
               ret[t].source \in {JStr("grok"), JStr("mimo"), JStr("fallback")}
C20_CacheNeverFails ==
    /\ []C20_NoErrorResult
    /\ [][\A t \in Tasks :
             /\ lookupFails(t) => goesOnAsMiss(t) /\ cacheStore' = cacheStore
             /\ writeFails(t) =>
                    /\ cacheStore' = cacheStore
                    /\ IF isAuction(t)
                       THEN pc'[t] = "auction_done" /\ ret'[t] = profile[t]
                       ELSE pc'[t] = "done" /\ ret'[t] = aiRet(t)]_vars

\* C20, its case: the lookup read a string that is not JSON, the provider
\* answered, the setEx of the write was rejected; the call has returned the
\* provider's profile and the store still holds the unreadable string.
C20_Witness ==
    /\ pc["t1"] = "done" /\ ret["t1"].source = "ai"
    /\ InTrail("t1", "cache:corrupt") /\ InTrail("t1", "put:error")
    /\ cacheStore[cacheKeyOf(clientInfo["t1"])].value = Unparseable

\* The fields of a profile generateFallbackProfile returns (as modelled).
FallbackFields ==
    {"likelyDeveloper", "developerScore", "likelyGamer", "gamerScore", "likelyDesigner",
     "designerScore", "likelyPowerUser", "powerUserScore", "privacyConscious",
     "privacyScore", "humanScore", "likelyCountry", "fraudRiskScore", "aiGenerated"}
populated(p) ==
    /\ DOMAIN p = FallbackFields
    /\ \A f \in FallbackFields : p[f].t \in {"boolean", "number", "string"}

C18_AsStated ==
    env_REDIS_URL = "" =>
        /\ redis = Null /\ trackingRedis = Null
        /\ ~redisConnecting /\ ~trackingRedisConnecting
        /\ \A h \in Handles : cacheClients[h] = "closed" /\ trackingClients[h] = "closed"
        /\ \A t \in Tasks : client[t] = Null

\* The steps of the chain in the order of the code, and the step a tag of
\* the history belongs to: cache check, availability gate, rate gate,
\* primary provider (call, answer), secondary provider (call, answer),
\* deterministic fallback, write-through.
stageOf(tag) ==
    CASE tag \in {"cache:hit", "cache:miss", "cache:corrupt", "cache:unavailable",
                  "cache:error"} -> 1
      [] tag \in {"avail:none", "avail:pass"} -> 2
      [] tag \in {"rate:pass", "rate:deny"} -> 3
      [] tag = "grok:call" -> 4
      [] tag \in {"grok:ok", "grok:fail"} -> 5
      [] tag = "mimo:call" -> 6
      [] tag \in {"mimo:ok", "mimo:fail"} -> 7
      [] tag = "fallback" -> 8
      [] tag \in {"put:ok", "put:error", "put:unavailable"} -> 9
      [] OTHER -> 0
\* The steps that can produce the result, as they appear in a history.
Producers == {"cache:hit", "grok:ok", "mimo:ok", "fallback"}
producersOf(t) == {tag \in Producers : InTrail(t, tag)}
\* The producer the returned result names.
producerOfRet(t) ==
    CASE ret[t].source = "cache" -> "cache:hit"
      [] ret[t].source = "fallback" -> "fallback"
      [] ret[t].source = "ai" /\ ret[t].profile.aiSource = JStr("grok") -> "grok:ok"
      [] ret[t].source = "ai" /\ ret[t].profile.aiSource = JStr("mimo") -> "mimo:ok"
      [] OTHER -> "none"

\* C21 (order of the chain): within one generateAIProfile call the steps
\* run in the order cache check, availability gate, rate gate, primary
\* provider, secondary provider, fallback, each at most once and never
\* backwards; the chain starts with the cache check; the secondary is
\* called only after the primary has failed or when it is not configured;
\* the fallback is computed only when no provider has produced a profile;
\* a completed call has exactly one producer among cache, primary,
\* secondary and fallback, and it is the one its result names.
C21_ChainOrder ==
    \A t \in Tasks :
        pc[t] \in ProfilePcs /\ ~isAuction(t) =>
            /\ \A i, j \in DOMAIN trail[t] :
                   i < j => 0 < stageOf(trail[t][i])
                            /\ stageOf(trail[t][i]) < stageOf(trail[t][j])
            /\ trail[t] # <<>> => stageOf(trail[t][1]) = 1
            /\ InTrail(t, "cache:hit") => trail[t] = <<"cache:hit">>
            /\ InTrail(t, "avail:none") => ~GROK_API_KEY /\ ~OPENROUTER_API_KEY
            /\ InTrail(t, "rate:pass") \/ InTrail(t, "rate:deny") => InTrail(t, "avail:pass")
            /\ InTrail(t, "grok:call") => InTrail(t, "rate:pass") /\ GROK_API_KEY
            /\ InTrail(t, "mimo:call") =>
                   /\ InTrail(t, "rate:pass") /\ OPENROUTER_API_KEY
                   /\ InTrail(t, "grok:fail") \/ ~GROK_API_KEY
            /\ InTrail(t, "fallback") =>
                   ~InTrail(t, "grok:ok") /\ ~InTrail(t, "mimo:ok")
            /\ Cardinality(producersOf(t)) <= 1
            /\ pc[t] = "done" => producersOf(t) = {producerOfRet(t)}

\* C21, its case: the whole chain in one call: a miss on the healthy
\* store, both gates passed, the primary failed, the secondary failed, the
\* fallback returned.
C21_Witness ==
    /\ pc["t1"] = "done" /\ ret["t1"].source = "fallback"
    /\ trail["t1"] = <<"cache:miss", "avail:pass", "rate:pass", "grok:call", "grok:fail",
                       "mimo:call", "mimo:fail", "fallback">>

\* The slot t holds a generateAIAuction call that has completed.
auctionDone(t) == pc[t] = "auction_done"
\* A provider has yielded an auction in the call in slot t, or the cache has.
auctionYielded(t) ==
    InTrail(t, "cache:hit") \/ InTrail(t, "grok:ok") \/ InTrail(t, "mimo:ok")

\* C22 (the empty auction): a generateAIAuction call that has completed
\* holds a result, never an error: bids and valueFactors are arrays and
\* source is grok, mimo or fallback; when no provider is configured, or
\* every provider that was called failed or answered with text that is not
\* an auction, the result is bids = [], valueFactors = [], source
\* "fallback"; such a call has written nothing to the cache.
C22_EmptyAuction ==
    \A t \in Tasks :
        auctionDone(t) =>
            /\ DOMAIN ret[t] = {"bids", "valueFactors", "source"}
            /\ ret[t].bids.t = "array" /\ ret[t].valueFactors.t = "array"
            /\ ret[t].source \in {JStr("grok"), JStr("mimo"), JStr("fallback")}
            /\ ~auctionYielded(t) =>
                   /\ ret[t].bids = JArr(0)
                   /\ ret[t].valueFactors = JArr(0)
                   /\ ret[t].source = JStr("fallback")
                   /\ ~wroteThrough(t)
            /\ ~GROK_API_KEY /\ ~OPENROUTER_API_KEY /\ ~InTrail(t, "cache:hit") =>
                   ret[t].source = JStr("fallback")
            /\ ret[t].source = JStr("fallback") => ~auctionYielded(t)

\* C22, its case: a miss on the healthy store, the primary called and
\* failed, the secondary called and failed, the empty auction returned.
C22_Witness ==
    /\ auctionDone("t1")
    /\ trail["t1"] = <<"cache:miss", "grok:call", "grok:fail", "mimo:call", "mimo:fail",
                       "fallback">>
    /\ ret["t1"].bids = JArr(0) /\ ret["t1"].source = JStr("fallback")

\* The provider answer the call in slot t received last, the history tag of
\* its acceptance, and the contract of lines 668-671 for an answer.
answered(t) == answer[t].from # "none"
okTag(t) == IF answer[t].from = "grok" THEN "grok:ok" ELSE "mimo:ok"
isDocument(o) == o.kind = "text" /\ o.text.syntax = "json"
boolOk(o) == o.text.doc.likelyDeveloper.t = "boolean"
numOk(o) == o.text.doc.developerScore.t = "number"
accepted(t) == InTrail(t, okTag(t))

\* C23 as stated (one required field is enough): a provider answer that is
\* a JSON document in which at least one of the required fields is present
\* and well-typed is accepted.
C23_AsStated ==
    \A t \in Tasks :
        answered(t) /\ isDocument(answer[t].outcome)
            /\ (boolOk(answer[t].outcome) \/ numOk(answer[t].outcome))
        => accepted(t)

\* C23, amended: a provider answer is accepted exactly when it is a JSON
\* document with a boolean likelyDeveloper and a number developerScore
\* (both); the accepted answer becomes the profile of the call, normalized
\* and marked with its provider; any other answer yields no profile, is
\* never returned and never written to the cache, and the chain goes on:
\* from the primary to the secondary if that is configured, otherwise (and
\* from the secondary) to the deterministic fallback.
C23_Validated ==
    \A t \in Tasks :
        answered(t) =>
            LET o == answer[t].outcome IN
            /\ accepted(t) <=> (isDocument(o) /\ boolOk(o) /\ numOk(o))
            /\ accepted(t) =>
                   /\ profile[t] = markAI(parseAIResponse(o.text), answer[t].from)
                   /\ pc[t] = "done" => ret[t] = aiRet(t)
            /\ ~accepted(t) =>
                   /\ profile[t] = NoProfile
                   /\ ~wroteThrough(t)
                   /\ \/ pc[t] = "mimo_wait" /\ answer[t].from = "grok"
                             /\ OPENROUTER_API_KEY
                      \/ pc[t] = "done" /\ ret[t].source = "fallback"
                             /\ (answer[t].from = "grok" => ~OPENROUTER_API_KEY)
C23_Validation ==
    /\ []C23_Validated
    /\ [][\A t \in Tasks :
             answer'[t] # answer[t] /\ answered(t)' /\ ~accepted(t)'
                 => cacheStore' = cacheStore]_vars

\* C23, its case: the primary answered with a document whose developerScore
\* is a number and whose likelyDeveloper is a string, the secondary with a
\* document that has a boolean likelyDeveloper and no developerScore; both
\* were rejected and the call has returned the fallback.
C23_Witness ==
    /\ pc["t1"] = "done" /\ ret["t1"].source = "fallback"
    /\ InTrail("t1", "grok:fail") /\ InTrail("t1", "mimo:fail")
    /\ answer["t1"].from = "mimo"
    /\ isDocument(answer["t1"].outcome)
    /\ boolOk(answer["t1"].outcome) /\ ~numOk(answer["t1"].outcome)

\* The numeric score fields of a profile (of those the code clamps, the
\* ones modelled: the others go through the expression of gamerScore).
ScoreFields == {"developerScore", "gamerScore", "humanScore"}
inRange(x) == x.t = "number" /\ 0 <= x.v /\ x.v <= 100

\* C24 as stated (scores are clamped): every score of a profile that
\* parseAIResponse made of a provider's answer is a number in 0..100,
\* whatever the provider sent.
C24_AsStated ==
    \A t \in Tasks :
        answered(t) /\ accepted(t) =>
            \A f \in ScoreFields : inRange(profile[t][f])

\* The step in which the lookup of the generateAIProfile call in slot t
\* ends without a payload (lines 771-775), and the step in which it ends
\* with one.
lookupMisses(t) ==
    /\ pc[t] \in {"getRedis_ret", "get_wait"}
    /\ ~isAuction(t) /\ profile[t] = NoProfile
    /\ pc'[t] \notin {pc[t], "get_wait"}
    /\ ~(pc'[t] = "done" /\ ret'[t].source = "cache")
lookupHits(t) ==
    pc[t] = "get_wait" /\ pc'[t] = "done" /\ ret'[t].source = "cache"
noCredentials == ~GROK_API_KEY /\ ~OPENROUTER_API_KEY

\* C25 (availability gate): when neither GROK_API_KEY nor
\* OPENROUTER_API_KEY is set, a generateAIProfile call whose lookup ends
\* without a payload returns, in that same step, the deterministic
\* fallback of its request; no provider is ever called, checkRateLimit is
\* not called and userRateLimits stays as it was (empty).
C25_NoProviderNoWindow ==
    noCredentials =>
        /\ userRateLimits = <<>>
        /\ \A t \in Tasks :
               /\ pc[t] \notin {"grok_wait", "mimo_wait", "grok_hung", "mimo_hung"}
               /\ ~InTrail(t, "rate:pass") /\ ~InTrail(t, "rate:deny")
               /\ ~InTrail(t, "grok:call") /\ ~InTrail(t, "mimo:call")
C25_AvailabilityGate ==
    /\ []C25_NoProviderNoWindow
    /\ [][\A t \in Tasks :
             lookupMisses(t) /\ noCredentials =>
                 /\ pc'[t] = "done"
                 /\ ret'[t] = [profile |-> generateFallbackProfile(clientInfo[t]),
                               source |-> "fallback", error |-> "No AI configured"]
                 /\ userRateLimits' = userRateLimits]_vars

\* C25, its case: no credentials; a call has missed the cache on the
\* healthy store and has returned the fallback; no window exists.
C25_Witness ==
    /\ noCredentials /\ storeUp
    /\ pc["t1"] = "done" /\ ret["t1"].source = "fallback"
    /\ trail["t1"] = <<"cache:miss", "avail:none", "fallback">>
    /\ userRateLimits = <<>>

\* C26 (a cache hit stops the chain): a generateAIProfile call whose lookup
\* finds a payload under its key returns, in that same step, that payload
\* with source "cache"; the step leaves every window of the rate limiter
\* as it was and counts no provider-reaching request; this holds also when
\* the caller's window is full.
C26_CacheHitStops ==
    [][\A t \in Tasks :
          lookupHits(t) =>
              /\ cacheKeyOf(clientInfo[t]) \in DOMAIN cacheStore
              /\ ret'[t] = [profile |-> JSONparse(cacheStore[cacheKeyOf(clientInfo[t])].value),
                            source |-> "cache", error |-> ""]
              /\ userRateLimits' = userRateLimits
              /\ ghostWindow' = ghostWindow
              /\ cacheStore' = cacheStore]_vars

\* C26, its case: the caller's window is full and still open, and a call
\* of that caller has returned a payload from the cache.
C26_Witness ==
    \E t \in Tasks :
        /\ pc[t] = "done" /\ ret[t].source = "cache"
        /\ windowFull(t)
        /\ ghostWindow[rateKeyOf(clientInfo[t])].count = RATE_LIMIT_MAX

\* A step of the connection manager: a step of getRedis or getTrackingRedis
\* (a call entering it, creating the client, or its connect() settling),
\* or an event of a client (the 'error' handlers the two functions
\* register, the library's reconnecting), which moves no call.
managerStep ==
    \/ \A t \in Tasks : pc'[t] = pc[t]
    \/ \E t \in Tasks :
          /\ pc'[t] # pc[t]
          /\ \/ pc[t] \in {"getRedis_create", "getRedis_connect",
                           "getTrackingRedis_create", "getTrackingRedis_connect"}
             \/ pc'[t] \in {"getRedis_ret", "getRedis_create",
                            "getTrackingRedis_ret", "getTrackingRedis_create"}

\* C27 as stated (shared-resource policy): the handle, the connecting flag,
\* the error timestamp and the clients of either connection change only in
\* steps of the connection manager; no step of the cache layer or of
\* visitor tracking outside getRedis / getTrackingRedis changes them.
C27_AsStated ==
    [][connVars' # connVars \/ trackConnVars' # trackConnVars => managerStep]_vars

\* The step in which the sAdd of the call in slot t is rejected, the step
\* in which the disconnect() of its catch has settled, and the last step
\* the call has taken.
sAddRejected(t) ==
    /\ pc[t] = "sAdd_wait" /\ pc'[t] # "sAdd_wait"
    /\ ~storeUp \/ trackingClients[client[t]] = "closed"
catchEnds(t) == pc[t] = "disconnect_wait" /\ pc'[t] # "disconnect_wait"
lastTag(t) == IF trail[t] = <<>> THEN "" ELSE trail[t][Len(trail[t])]
trackingHandleOpen == trackingRedis # Null /\ isOpen(trackingClients[trackingRedis])

cacheConnectEnds(t) == pc[t] = "getRedis_connect" /\ pc'[t] # pc[t]
trackingConnectEnds(t) == pc[t] = "getTrackingRedis_connect" /\ pc'[t] # pc[t]
cacheAttempts == {t \in Tasks : pc[t] \in {"getRedis_create", "getRedis_connect"}}
trackingAttempts ==
    {t \in Tasks : pc[t] \in {"getTrackingRedis_create", "getTrackingRedis_connect"}}

\* C29 as stated (an attempt leaves Connecting): the step that ends a
\* connection attempt clears the connecting flag and leaves the connection
\* either connected (the handle set to an open client, the error timestamp
\* 0) or in its cooldown (the handle null, the error timestamp now); the
\* flag is set only while an attempt is in progress.
C29_AsStated ==
    /\ [](/\ redisConnecting => cacheAttempts # {}
          /\ trackingRedisConnecting => trackingAttempts # {})
    /\ [][\A t \in Tasks :
             /\ cacheConnectEnds(t) =>
                    /\ ~redisConnecting'
                    /\ \/ /\ redis' # Null /\ isOpen(cacheClients'[redis'])
                          /\ redisLastError' = 0
                       \/ redis' = Null /\ redisLastError' = now
             /\ trackingConnectEnds(t) =>
                    /\ ~trackingRedisConnecting'
                    /\ \/ /\ trackingRedis' # Null
                          /\ isOpen(trackingClients'[trackingRedis'])
                          /\ trackingRedisLastError' = 0
                       \/ trackingRedis' = Null /\ trackingRedisLastError' = now]_vars

\* The backoff window of a connection has elapsed since its last failure.
cacheWindowOver ==
    redisLastError > 0 /\ now - redisLastError >= REDIS_BACKOFF_MS
trackingWindowOver ==
    trackingRedisLastError > 0 /\ now - trackingRedisLastError >= REDIS_BACKOFF_MS
cacheHandleOpen == redis # Null /\ isOpen(cacheClients[redis])

\* C30 (cooldown re-eligibility): once now - errorTimestamp >=
\* REDIS_BACKOFF_MS for a connection, an acquire of it does not
\* short-circuit on the cooldown: it returns the open handle if the
\* connection has one; otherwise it returns Unavailable if an attempt is in
\* flight, and else sets the connecting flag and starts a new attempt. An
\* attempt started this way on a recovered store ends with a ready client
\* as the handle and the error timestamp 0.
C30_ReEligible ==
    [][\A t \in Tasks :
          /\ acquiresCache(t) /\ cacheWindowOver =>
                 /\ cacheHandleOpen =>
                        /\ pc'[t] = "getRedis_ret" /\ client'[t] = redis
                        /\ connVars' = connVars
                 /\ ~cacheHandleOpen /\ redisConnecting =>
                        /\ pc'[t] = "getRedis_ret" /\ client'[t] = Null
                        /\ connVars' = connVars
                 /\ ~cacheHandleOpen /\ ~redisConnecting =>
                        pc'[t] = "getRedis_create" /\ redisConnecting'
          /\ acquiresTracking(t) /\ trackingWindowOver =>
                 /\ trackingHandleOpen =>
                        /\ pc'[t] = "getTrackingRedis_ret"
                        /\ client'[t] = trackingRedis
                        /\ trackConnVars' = trackConnVars
                 /\ ~trackingHandleOpen /\ trackingRedisConnecting =>
                        /\ pc'[t] = "getTrackingRedis_ret" /\ client'[t] = Null
                        /\ trackConnVars' = trackConnVars
                 /\ ~trackingHandleOpen /\ ~trackingRedisConnecting =>
                        pc'[t] = "getTrackingRedis_create" /\ trackingRedisConnecting'
          /\ cacheConnectEnds(t) /\ cacheWindowOver /\ storeUp
             /\ cacheClients[client[t]] = "connecting" =>
                 /\ redis' = client[t] /\ cacheClients'[redis'] = "ready"
                 /\ redisLastError' = 0 /\ ~redisConnecting'
          /\ trackingConnectEnds(t) /\ trackingWindowOver /\ storeUp
             /\ trackingClients[client[t]] = "connecting" =>
                 /\ trackingRedis' = client[t]
                 /\ trackingClients'[trackingRedis'] = "ready"
                 /\ trackingRedisLastError' = 0 /\ ~trackingRedisConnecting']_vars

\* Both connections failed, their windows have elapsed, the store has
\* recovered and an acquire of each has started a new attempt.
C30_Witness ==
    /\ cacheWindowOver /\ trackingWindowOver /\ storeUp
    /\ pc["t1"] = "getRedis_connect" /\ cacheClients[client["t1"]] = "connecting"
    /\ pc["t2"] = "getTrackingRedis_connect"
    /\ trackingClients[client["t2"]] = "connecting"

\* The user ids of the requests.
UserIds == {rateKeyOf(r) : r \in Requests}
\* A window that checkRateLimit would still count in at time t.
live(w, t) == ~(t > w.resetTime)
\* The map differs from the one no sweep has touched only by windows whose
\* reset time has passed.
C31_SweptOnlyExpired ==
    /\ DOMAIN userRateLimits \subseteq DOMAIN unswept
    /\ \A u \in DOMAIN unswept :
           IF u \in DOMAIN userRateLimits
           THEN userRateLimits[u] = unswept[u]
           ELSE ~live(unswept[u], now)
\* checkRateLimit gives the same verdict and leaves the same window on
\* both maps, for every user.
C31_SameVerdict ==
    \A u \in UserIds :
        LET a == checkRateLimit(userRateLimits, u, now)
            b == checkRateLimit(unswept, u, now)
        IN  a.allowed = b.allowed /\ a.limits[u] = b.limits[u]
\* A step that takes windows out of the map.
sweepDeletes ==
    /\ DOMAIN userRateLimits' # DOMAIN userRateLimits
    /\ DOMAIN userRateLimits' \subseteq DOMAIN userRateLimits

\* C31 (the sweep is invisible): a sweep deletes exactly the windows with
\* now > resetTime and leaves every other window as it is; with sweeps at
\* any point between the steps of the requests, every checkRateLimit call
\* gives the verdict it would give on the map of a run without sweeps.
C31_SweepInvisible ==
    /\ [](C31_SweptOnlyExpired /\ C31_SameVerdict)
    /\ [][sweepDeletes =>
             /\ DOMAIN userRateLimits' =
                    {u \in DOMAIN userRateLimits : live(userRateLimits[u], now)}
             /\ \A u \in DOMAIN userRateLimits' :
                    userRateLimits'[u] = userRateLimits[u]]_vars
    /\ [][\A t \in Tasks :
             gateStep(t) =>
                 (pc'[t] \in {"grok_wait", "mimo_wait"}
                     <=> checkRateLimit(unswept, rateKeyOf(clientInfo[t]), now).allowed)]_vars

\* C31, its case: the sweep has deleted the window of one caller while the
\* full window of the other caller, at its reset time, is still in the map,
\* and a call of that caller has just been refused.
C31_Witness ==
    \E u, v \in UserIds, t \in Tasks :
        /\ u \in DOMAIN unswept /\ u \notin DOMAIN userRateLimits
        /\ v \in DOMAIN userRateLimits
        /\ userRateLimits[v].resetTime = now
        /\ pc[t] = "done" /\ ret[t].error = "Rate limited"
        /\ rateKeyOf(clientInfo[t]) = v

\* The key of the one caller's requests, the steps in which a lookup of the
\* call in slot t ended without a profile, and the step in which its
\* write-through completed.
theKey == CHOOSE k \in {cacheKeyOf(r) : r \in OneCaller} : TRUE
missed(t) ==
    \/ InTrail(t, "cache:miss") \/ InTrail(t, "cache:unavailable")
    \/ InTrail(t, "cache:error")
writeCompletes(t) == pc[t] = "setEx_wait" /\ InTrail(t, "put:ok")' /\ pc'[t] = "done"
C32_OwnResult ==
    \A t \in Tasks :
        pc[t] = "done" /\ answered(t) =>
            /\ missed(t)
            /\ ret[t].source = "ai"
            /\ ret[t].profile =
                   markAI(parseAIResponse(answer[t].outcome.text), answer[t].from)
C32_OneWholeEntry ==
    /\ DOMAIN cacheStore \subseteq {theKey}
    /\ theKey \in DOMAIN cacheStore =>
           \E o \in RaceOutcomes, from \in {"grok", "mimo"} :
               cacheStore[theKey] =
                   [value |-> JSONstringify(markAI(parseAIResponse(o.text), from)),
                    ttl |-> CACHE_TTL]

\* C32 (concurrent misses for one key): each of two requests in flight
\* with the same key that missed the cache returns the profile made of its
\* own provider's answer, with source "ai"; the cache holds at most one
\* entry for the key, always one provider profile as a whole; every
\* completed write-through replaces the entry by the payload of that write,
\* and nothing else changes it, so after both writes the entry is the
\* payload of the write that completed last.
C32_ConcurrentMisses ==
    /\ [](C32_OwnResult /\ C32_OneWholeEntry)
    /\ [][/\ \A t \in Tasks :
                writeCompletes(t) =>
                    /\ DOMAIN cacheStore' = {theKey}
                    /\ cacheStore'[theKey] =
                           [value |-> JSONstringify(profile[t]), ttl |-> CACHE_TTL]
                    /\ ret'[t].profile = profile[t]
          /\ cacheStore' # cacheStore => \E t \in Tasks : writeCompletes(t)]_vars

\* C32, its case: both requests missed, got different profiles from the
\* provider and wrote them through; the entry is the profile of the second
\* slot and not that of the first.
C32_Witness ==
    /\ pc["t1"] = "done" /\ pc["t2"] = "done"
    /\ InTrail("t1", "cache:miss") /\ InTrail("t2", "cache:miss")
    /\ InTrail("t1", "put:ok") /\ InTrail("t2", "put:ok")
    /\ ret["t1"].source = "ai" /\ ret["t2"].source = "ai"
    /\ ret["t1"].profile # ret["t2"].profile
    /\ cacheStore[theKey].value = JSONstringify(ret["t2"].profile)
    /\ cacheStore[theKey].value # JSONstringify(ret["t1"].profile)

\* The inputs a key is derived from, the keys of the requests of KeySpec,
\* and what kind of payload a stored string holds.
identityOf(ci) == <<ci.fingerprintId, ci.crossBrowserId>>
auctionInputsOf(req) == <<req.profileSummary, req.countryCode>>
ProfileKeys == {cacheKeyOf(r) : r \in KeyRequests}
AuctionKeys == {auctionKeyOf(a) : a \in KeyAuctionRequests}
holdsProfile(e) == "developerScore" \in DOMAIN JSONparse(e.value) /\ e.ttl = CACHE_TTL
holdsAuction(e) == "bids" \in DOMAIN JSONparse(e.value) /\ e.ttl = AUCTION_CACHE_TTL
lookupEnds(t) == pc[t] \in {"get_wait", "auction_get_wait"} /\ pc'[t] # pc[t]
C33_SameInputsSameKey ==
    /\ \A r1, r2 \in KeyRequests :
           identityOf(r1) = identityOf(r2) => cacheKeyOf(r1) = cacheKeyOf(r2)
    /\ \A a1, a2 \in KeyAuctionRequests :
           auctionInputsOf(a1) = auctionInputsOf(a2) => auctionKeyOf(a1) = auctionKeyOf(a2)
    /\ ProfileKeys \cap AuctionKeys = {}
C33_SlotsApart ==
    /\ DOMAIN cacheStore \subseteq ProfileKeys \cup AuctionKeys
    /\ \A k \in DOMAIN cacheStore :
           /\ k \in ProfileKeys => holdsProfile(cacheStore[k])
           /\ k \in AuctionKeys => holdsAuction(cacheStore[k])
    /\ \A t \in Tasks :
           InTrail(t, "cache:hit") =>
               IF isAuction(t) THEN "bids" \in DOMAIN ret[t]
               ELSE ret[t].source = "cache" /\ "developerScore" \in DOMAIN ret[t].profile

\* C33 (key derivation): requests with the same (fingerprintId,
\* crossBrowserId) have the same profile key whatever else they carry, and
\* auction requests with the same (profileSummary, countryCode) the same
\* auction key; a call reads and writes the store at the key of its inputs
\* only: its lookup is a hit exactly when the store holds an entry at that
\* key, and its write-through changes that key and no other; no profile
\* key is an auction key, every entry at a profile key is a profile and
\* every entry at an auction key an auction, and a hit returns a payload of
\* the call's own kind.
C33_KeyDerivation ==
    /\ [](C33_SameInputsSameKey /\ C33_SlotsApart)
    /\ [][\A t \in Tasks :
             LET k == IF isAuction(t) THEN auctionKeyOf(clientInfo[t])
                      ELSE cacheKeyOf(clientInfo[t])
             IN  /\ lookupEnds(t) =>
                        (InTrail(t, "cache:hit")' <=> k \in DOMAIN cacheStore)
                 /\ pc[t] \in {"setEx_wait", "auction_setEx_wait"} /\ pc'[t] # pc[t] =>
                        /\ DOMAIN cacheStore' = DOMAIN cacheStore \cup {k}
                        /\ \A j \in DOMAIN cacheStore \ {k} :
                               cacheStore'[j] = cacheStore[j]]_vars

\* C33, its case: a profile written for one request is served to a request
\* with the same identity pair and other signals; an auction written for
\* one request is served to a request with the same summary and country
\* code; the store holds the profile of the pair that is spelt like the
\* hash and country code of that auction next to the auction.
C33_Witness ==
    /\ pc["t1"] = "done" /\ InTrail("t1", "cache:hit")
    /\ "devToolsOpen" \in DOMAIN clientInfo["t1"]
    /\ pc["t2"] = "auction_done" /\ InTrail("t2", "cache:hit")
    /\ clientInfo["t2"].country = "Kanada"
    /\ getCacheKey(profileHash(S1), "CA") \in DOMAIN cacheStore
    /\ auctionKeyOf(AuctionRequest(S1, "Canada", "CA")) \in DOMAIN cacheStore

\* The call in slot t is a generateAIProfile call in progress.
profileCall(t) == pc[t] # "idle" /\ ~isAuction(t)

\* C34 as stated (identity pairs never collide): two requests whose
\* (fingerprintId, crossBrowserId) pairs differ, a missing field included,
\* have different profile cache keys and different rate-limit buckets.
C34_AsStated ==
    \A t, u \in Tasks :
        profileCall(t) /\ profileCall(u)
            /\ identityOf(clientInfo[t]) # identityOf(clientInfo[u])
        => /\ cacheKeyOf(clientInfo[t]) # cacheKeyOf(clientInfo[u])
           /\ rateKeyOf(clientInfo[t]) # rateKeyOf(clientInfo[u])

\* The call in slot t is a generateAIAuction call in progress.
auctionCall(t) == pc[t] # "idle" /\ isAuction(t)

\* C35 as stated (auction slots never shared): two auction requests whose
\* (profileSummary, countryCode) differ address different cache slots, so
\* none is answered with the entry cached for the other.
C35_AsStated ==
    \A t, u \in Tasks :
        auctionCall(t) /\ auctionCall(u)
            /\ auctionInputsOf(clientInfo[t]) # auctionInputsOf(clientInfo[u])
        => auctionKeyOf(clientInfo[t]) # auctionKeyOf(clientInfo[u])

\* The call in slot u is establishing the tracking client h.
establishing(u, h) == pc[u] = "getTrackingRedis_connect" /\ client[u] = h

\* C36 as stated (the forced close touches only the failed handle): the
\* client trackUniqueVisitor disconnects after a failed set-insert is the
\* one its own command failed on and not one a concurrent acquire is
\* establishing; the handle it then discards is that closed client and not
\* one established meanwhile; and an acquire whose connect() succeeded
\* returns the connected handle, not Unavailable.
C36_AsStated ==
    [][\A t \in Tasks :
          /\ sAddRejected(t) /\ trackingRedis # Null =>
                 /\ trackingRedis = client[t]
                 /\ \A u \in Tasks \ {t} : ~establishing(u, trackingRedis)
          /\ catchEnds(t) /\ trackingRedis # Null =>
                 /\ trackingClients[trackingRedis] = "closed"
                 /\ \A u \in Tasks \ {t} : ~establishing(u, trackingRedis)
          /\ trackingConnectEnds(t) /\ trackingRedisLastError' = 0 =>
                 /\ client'[t] # Null
                 /\ trackingClients'[client'[t]] = "ready"]_vars

\* How many calls have returned true, over all visitors (per visitor, counts
\* beyond 2 are not told apart).
trueReturns ==
    Cardinality({k \in DOMAIN firsts : firsts[k] >= 1})
        + Cardinality({k \in DOMAIN firsts : firsts[k] >= 2})

\* C37 (returns and the visitor set): the calls that have returned true
\* are never more than the members of the visitor set, every visitor for
\* which a call has returned true is a member, and no step takes a member
\* out of the set: not a call that returns false after failures, not a
\* failure of the store.
C37_ReturnsAndSet ==
    /\ [](/\ trueReturns <= Cardinality(visitorSet)
          /\ \A k \in DOMAIN firsts : firsts[k] >= 1 => k \in visitorSet)
    /\ [][visitorSet \subseteq visitorSet']_vars

\* C37, its case: the insert of one visitor was executed but its reply lost,
\* the call for it has used up its attempts and returned false; the visitor
\* is a member for whom no call has returned true, next to a visitor who
\* was counted by a call that returned true.
C37_Witness ==
    \E t \in Tasks :
        /\ pc[t] = "track_done" /\ ~ret[t].isNew /\ attempt[t] = maxRetries
        /\ visitorKeyOf(clientInfo[t]) \in visitorSet
        /\ firstsOf(visitorKeyOf(clientInfo[t])) = 0
        /\ trueReturns = 1 /\ Cardinality(visitorSet) = 2

\* ---------------------------------------------------------------------
\* The deterministic profile over the signals it reads (lines 504-593).
\* The signals of one score are varied together, at and around the
\* thresholds the code tests, the signals of the other scores absent.
BareRequest == [fingerprintId |-> "fpA", crossBrowserId |-> "cb"]
DeveloperSignals ==
    [hasDeveloperFonts : BOOLEAN, hasDeveloperExtensions : BOOLEAN, devToolsOpen : BOOLEAN]
GamerSignals ==
    [gamepadsSupported : BOOLEAN, hasGamingGPU : BOOLEAN, hasDiscord : BOOLEAN,
     hasSteam : BOOLEAN]
DesignerSignals ==
    [devicePixelRatio : {1, 2}, colorGamut : {"srgb", "p3", "rec2020"},
     hdrSupported : BOOLEAN, screenWidth : {1920, 2560}]
PowerUserSignals ==
    [hardwareConcurrency : {4, 8}, deviceMemory : {8, 16}, languagesLength : {2, 3},
     keyboardShortcutsUsedLength : {3, 4}]
PrivacySignals ==
    [adBlockerDetected : BOOLEAN, doNotTrack : BOOLEAN, globalPrivacyControl : BOOLEAN,
     isIncognito : BOOLEAN, likelyUsingVPN : BOOLEAN]
BotSignals ==
    [isAutomated : BOOLEAN, isHeadless : BOOLEAN, isVirtualMachine : BOOLEAN,
     isIncognito : BOOLEAN, likelyUsingVPN : BOOLEAN]
EverySignal ==
    [hasDeveloperFonts |-> TRUE, hasDeveloperExtensions |-> TRUE, devToolsOpen |-> TRUE,
     gamepadsSupported |-> TRUE, hasGamingGPU |-> TRUE, hasDiscord |-> TRUE,
     hasSteam |-> TRUE, devicePixelRatio |-> 2, colorGamut |-> "p3",
     hdrSupported |-> TRUE, screenWidth |-> 2560, hardwareConcurrency |-> 8,
     deviceMemory |-> 16, languagesLength |-> 3, keyboardShortcutsUsedLength |-> 4,
     adBlockerDetected |-> TRUE, doNotTrack |-> TRUE, globalPrivacyControl |-> TRUE,
     isIncognito |-> TRUE, likelyUsingVPN |-> TRUE, isAutomated |-> TRUE,
     isHeadless |-> TRUE, isVirtualMachine |-> TRUE]
FallbackRequests ==
    {g @@ BareRequest :
        g \in DeveloperSignals \cup GamerSignals \cup DesignerSignals
              \cup PowerUserSignals \cup PrivacySignals \cup BotSignals
              \cup {EverySignal}}

\* One step of a generateAIProfile call in slot t when no provider is
\* configured, the request carrying the signals of the deterministic
\* profile.
fallbackProfileStep(t) ==
    \/ \E ci \in FallbackRequests : generateAIProfile(t, ci)
    \/ getRedis_create(t)
    \/ getRedis_connected(t)
    \/ getRedis_failed(t)
    \/ getCachedProfile_acquired(t)
    \/ getCachedProfile_got(t)
    \/ getCachedProfile_failed(t)
    \/ profileReturned(t)

FallbackInit == InitWith({FALSE}, {FALSE}, {"trail"})
FallbackNext ==
    \/ fallbackProfileStep("t1")
    \/ cacheLibStep
    \/ storeStep
FallbackSpec == FallbackInit /\ [][FallbackNext]_vars

ScoreNames ==
    {"developerScore", "gamerScore", "designerScore", "powerUserScore", "privacyScore",
     "humanScore", "fraudRiskScore"}

\* The likely-flags, each with its score and its threshold.
FlagTests ==
    {<<"likelyDeveloper", "developerScore", 40>>, <<"likelyGamer", "gamerScore", 40>>,
     <<"privacyConscious", "privacyScore", 40>>, <<"likelyDesigner", "designerScore", 50>>,
     <<"likelyPowerUser", "powerUserScore", 50>>}

\* The call in slot t has returned the deterministic profile.
fellBack(t) == pc[t] = "done" /\ ret[t].source = "fallback"

\* C38: every deterministic profile returned has its seven scores within
\* 0..100, and each likely-flag is the threshold test on the score returned
\* with it: developer, gamer and privacy at 40, designer and power user at
\* 50.
C38_ScoresAndFlags ==
    \A t \in Tasks :
        fellBack(t) =>
            /\ \A f \in ScoreNames :
                  /\ ret[t].profile[f].t = "number"
                  /\ ret[t].profile[f].v \in 0..100
            /\ \A ft \in FlagTests :
                  ret[t].profile[ft[1]] = JBool(ret[t].profile[ft[2]].v >= ft[3])

\* A request with every signal present has returned: the developer, gamer
\* and privacy sums (110 each) came back as 100, the human score (100 - 100)
\* as 0, the fraud score as 75, and all five flags are set.
C38_Witness ==
    /\ fellBack("t1")
    /\ clientInfo["t1"] = EverySignal @@ BareRequest
    /\ ret["t1"].profile.developerScore = JNum(100)
    /\ ret["t1"].profile.gamerScore = JNum(100)
    /\ ret["t1"].profile.designerScore = JNum(100)
    /\ ret["t1"].profile.powerUserScore = JNum(100)
    /\ ret["t1"].profile.privacyScore = JNum(100)
    /\ ret["t1"].profile.humanScore = JNum(0)
    /\ ret["t1"].profile.fraudRiskScore = JNum(75)
    /\ \A ft \in FlagTests : ret["t1"].profile[ft[1]] = JBool(TRUE)

\* ---------------------------------------------------------------------
\* The retry loop of connect() under the reconnectStrategy of
\* createRedisClient (lines 46-62).
JError(message) == [t |-> "error", v |-> 0, s |-> message]

\* A faulty variant of reconnectStrategy: it gives up one retry later.
reconnectStrategy_oneMore(retries) ==
    IF retries > 6 THEN JError("Max retries reached")
    ELSE JNum(Min2(retries * 200, 2000))

\* Lines 53-58: an Error to give up, or the milliseconds to wait before the
\* next attempt.
reconnectStrategy(retries) ==
    IF retries > 5 THEN JError("Max retries reached")
    ELSE JNum(Min2(retries * 200, 2000))

\* An attempt of the pending connect() of slot t has failed and the
\* reconnectStrategy returned a delay: the library emits 'error' (the
\* handler of lines 77-80 runs), waits, and tries again.
socketRetry(t) ==
    /\ pc[t] = "getRedis_connect"
    /\ cacheClients[client[t]] = "connecting"
    /\ ~storeUp
    /\ LET h == client[t]
           r == reconnectStrategy(socketRetries[h].retries) IN
        /\ r.t = "number"
        /\ socketRetries' = [socketRetries EXCEPT
                               ![h].retries = @ + 1,
                               ![h].delays = Append(@, r.v)]
    /\ redisLastError' = now
    /\ UNCHANGED <<redis, redisConnecting, cacheClients, trackConnVars, envVars,
                   storeVars, userRateLimits, taskVars, callVars>>

\* An attempt of the pending connect() of slot t has failed and the
\* reconnectStrategy returned an Error: connect() rejects.
socketGivesUp(t) ==
    /\ pc[t] = "getRedis_connect"
    /\ reconnectStrategy(socketRetries[client[t]].retries).t = "error"
    /\ getRedis_failed(t)

\* One step of a generateAIProfile call in slot t when no provider is
\* configured, the attempts of connect() taken one by one.
reconnectProfileStep(t) ==
    \/ \E ci \in Requests : generateAIProfile(t, ci)
    \/ getRedis_create(t)
    \/ getRedis_connected(t)
    \/ socketRetry(t)
    \/ socketGivesUp(t)
    \/ getCachedProfile_acquired(t)
    \/ getCachedProfile_got(t)
    \/ getCachedProfile_failed(t)
    \/ profileReturned(t)

ReconnectInit == InitWith({FALSE}, {FALSE}, {"retries"})
ReconnectNext ==
    \/ \E t \in Tasks : reconnectProfileStep(t)
    \/ storeStep
    \/ Tick(REDIS_BACKOFF_MS)
ReconnectSpec == ReconnectInit /\ [][ReconnectNext]_vars

\* The delays the reconnectStrategy has returned in a loop that started at
\* number `first`: min(200 * r, 2000) for r = first, first + 1, ...
delaysFrom(first, n) == [i \in 1..n |-> Min2(200 * (first + i - 1), 2000)]

\* The loops of connect() that are running or have ended.
loops == {h \in Handles : socketRetries[h] # NoRetries}

\* The connect() of slot t is rejected in this step.
connectRejects(t) ==
    /\ pc[t] = "getRedis_connect" /\ pc'[t] = "getRedis_ret"
    /\ cacheClients'[client[t]] = "closed"

\* The delays of every loop are min(200 * r, 2000) for the numbers r the
\* strategy was called with, none of them above 5; they never decrease and
\* never exceed 2000 ms.
C39_Delays ==
    \A h \in loops :
        LET l == socketRetries[h] IN
            /\ l.retries = l.first + Len(l.delays)
            /\ l.retries <= 6
            /\ l.delays = delaysFrom(l.first, Len(l.delays))
            /\ \A i \in 1..Len(l.delays) :
                  /\ l.delays[i] <= 2000
                  /\ i > 1 => l.delays[i - 1] <= l.delays[i]

\* connect() is rejected exactly when the strategy is called with a number
\* above 5.
C39_GivesUp ==
    [][\A t \in Tasks :
          connectRejects(t) => socketRetries[client[t]].retries > 5]_vars

\* C39 as stated: the above, and at most 5 retries follow the initial
\* attempt of a connect().
C39_AsStated ==
    /\ C39_Delays
    /\ \A h \in loops : Len(socketRetries[h].delays) <= 5

\* C39: for the number r it is called with, the reconnectStrategy gives up
\* with an error when r > 5 and otherwise returns min(200 * r, 2000) ms; the
\* delays of one connect() never decrease and never exceed 2000 ms; at most
\* 6 retries follow the initial attempt.
C39_BoundedRetries ==
    /\ []C39_Delays
    /\ C39_GivesUp
    /\ [](\A h \in loops : Len(socketRetries[h].delays) <= 6)

\* A connect() has been rejected after six retries, the first of them
\* without delay, the last after 1000 ms.
C39_Witness ==
    \E t \in Tasks :
        /\ pc[t] = "getRedis_ret" /\ client[t] = Null
        /\ \E h \in loops :
              /\ cacheClients[h] = "closed"
              /\ socketRetries[h].retries = 6
              /\ socketRetries[h].delays = <<0, 200, 400, 600, 800, 1000>>
        /\ redisLastError = now

====
